---- MODULE Spec2Model ----
(***************************************************************************)
(* Model of the Torua end-to-end test harness: process supervision         *)
(* (features/environment.py) and signal based fault injection              *)
(* (features/steps/cluster_management_steps.py,                            *)
(* features/steps/distributed_storage_steps.py).                           *)
(*                                                                         *)
(* The operating system's process table is part of the state: the harness  *)
(* launches processes, scans the table with psutil and sends signals.      *)
(*                                                                         *)
(* Spec and SpecStale are the process harness; SpecGate is a call of a     *)
(* readiness gate, with its clock, and SpecGateLive the same on a thread   *)
(* that keeps running; SpecCalc is a call of a pure helper or              *)
(* of a step that depends only on the answers it gets (registration check, *)
(* shard variance, quorum, cluster status, graceful shutdown); SpecPool is *)
(* a concurrent workload with its thread pool; SpecScenario is the         *)
(* scenario hooks.                                                         *)
(***************************************************************************)
EXTENDS Integers, Sequences, FiniteSets, TLC

None == "none"

\* Node names used by the scenarios; n1 and n2 form the initial cluster.
NodeNames == {"n1", "n2", "n3"}

\* Iteration order of the test_context.nodes dict (insertion order).
NodeOrder == <<"n1", "n2", "n3">>

coordinator_port == 8080
node1_port == 8081
node2_port == 8082
node3_port == 8083

\* Names and ports a scenario passes to start_node: a name of the initial
\* cluster and a new name.
StartNames == {"n2", "n3"}

\* Node names the fault-injection steps are run with: a node of the initial
\* cluster, and a name that is unknown until start_node adds it.
FaultNodes == {"n2", "n3"}
StartPorts == {node3_port}

\* Bounds of the model.
MaxStartNodes == 1
MaxSuspended == 2
MaxExits == 1
MaxSlow == 1

\* Largest pid of a run: a stale process, goreman with its three services,
\* and the nodes added by start_node.
MaxPid == 5 + MaxStartNodes

VARIABLES
    phase,               \* "new", "up" (cluster started), "down" (stop_all_processes has run)
    procs,               \* OS process table: pid -> process
    tc_processes,        \* TestContext.processes (Popen handles, as pids)
    tc_goreman,          \* TestContext.goreman_process (pid, 0 when None)
    tc_coordinator,      \* TestContext.coordinator (ProcessInfo)
    tc_nodes,            \* TestContext.nodes: name -> ProcessInfo
    tc_suspended_pids,   \* TestContext.suspended_pids
    tc_test_dir,         \* TestContext.test_dir on disk: "none", "present", "removed"
    ctx_has_suspended_pids, \* hasattr(context, 'suspended_pids')
    ctx_suspended_pids,  \* context.suspended_pids (empty while the attribute is absent)
    ctx_suspended_pid,   \* context.suspended_pid (0 while the attribute is absent)
    ctx_suspended_node,  \* context.suspended_node (None while the attribute is absent)
    post_sweep,          \* process table after the sweep phase of the last stop_all_processes
    last,                \* the operation executed last, with the signals it sent
    nstart,              \* number of start_node calls
    nexit,               \* number of processes that exited on their own
    waited,              \* the waits of the cluster start that have passed, in order
    reaped,              \* pids whose exit a poll() or wait() of the harness has returned
    gate,                \* a call of a readiness gate: its clock and its evaluations
    calc,                \* a call of a pure helper: its arguments and its results
    pool,                \* a concurrent workload: the thread pool, its futures, the context
    scn                  \* the scenario hooks: the residual state of the context

\* The variables of the process harness, and those of the helpers it calls.
harness_vars == <<phase, procs, tc_processes, tc_goreman, tc_coordinator, tc_nodes,
                  tc_suspended_pids, tc_test_dir, ctx_has_suspended_pids,
                  ctx_suspended_pids, ctx_suspended_pid, ctx_suspended_node,
                  post_sweep, last, nstart, nexit, waited, reaped>>

\* The variables of the gates, the pure helpers, the workload and the hooks.
helper_vars == <<gate, calc, pool, scn>>

vars == <<harness_vars, helper_vars>>

Range(s) == {s[i] : i \in DOMAIN s}

----------------------------------------------------------------------------
\* Records

\* ProcessInfo dataclass; process = 0 stands for process=None.
ProcessInfo(name, port, process) ==
    [name |-> name, port |-> port, process |-> process, pid |-> process]

NoProcessInfo == [name |-> None, port |-> 0, process |-> 0, pid |-> 0]

\* An OS process.  exe: the binary (cmdline[0]); node_id: NODE_ID of its
\* environment; cmd_port: a port visible in its command line (0: none);
\* own: it belongs to the user running the harness (environment readable,
\* signals permitted); ppid: 0 for a child of the harness, the pid of goreman
\* for a goreman child, -1 for a process the harness did not start.
Proc(exe, node_id, cmd_port, own, ppid) ==
    [exe |-> exe, node_id |-> node_id, cmd_port |-> cmd_port, own |-> own,
     ppid |-> ppid, st |-> "running"]

\* subprocess.Popen: the new process gets the next pid.
Popen(ps, exe, node_id, ppid) == Append(ps, Proc(exe, node_id, 0, TRUE, ppid))

Alive(ps, pid) == pid \in DOMAIN ps /\ ps[pid].st # "exited"

\* Popen.poll() is None
poll_is_None(ps, pid) == Alive(ps, pid)

\* Port configured for a node name (TorquaEnvironment.__init__).
PortOf(name) ==
    CASE name = "n1" -> node1_port
      [] name = "n2" -> node2_port
      [] OTHER -> node3_port

----------------------------------------------------------------------------
\* Signals

\* State of a pid in a process table.
StateOf(ps, pid) == IF pid \in DOMAIN ps THEN ps[pid].st ELSE "none"

\* A signal the harness sent: the pid, the signal, whether the delivery
\* succeeded, the code that sent it, and the state of the process at that time.
Sig(pid, sig, ok, by, was) ==
    [pid |-> pid, sig |-> sig, ok |-> ok, by |-> by, was |-> was]

\* os.kill(pid, sig) for SIGSTOP, SIGCONT and SIGKILL: the new process table
\* and whether the call succeeded (it raises for a pid that is gone or that
\* belongs to another user).
os_kill(ps, pid, sig) ==
    IF ~Alive(ps, pid) \/ ~ps[pid].own
    THEN [ps |-> ps, ok |-> FALSE]
    ELSE [ps |-> [ps EXCEPT ![pid].st =
                     CASE sig = "SIGSTOP" -> "suspended"
                       [] sig = "SIGCONT" -> "running"
                       [] sig = "SIGKILL" -> "exited"
                       [] OTHER -> @],
          ok |-> TRUE]

\* SIGTERM followed by a wait of 5 seconds: a running process exits unless
\* it is slow to shut down; a suspended process keeps the signal pending.
term_and_wait(ps, pid, slow) ==
    IF Alive(ps, pid) /\ ps[pid].st = "running" /\ pid \notin slow
    THEN [ps EXCEPT ![pid].st = "exited"]
    ELSE ps

----------------------------------------------------------------------------
\* Initial state

\* A process found on the machine before the harness starts: a ./bin/node of
\* another user, started with its listen port on the command line.
StaleProc == Proc("node", "n1", node2_port, FALSE, -1)

\* error: the exception that left the operation ("none" when it returned).
NoOp == [op |-> "none", node |-> None, targets |-> <<>>, sigs |-> <<>>, raised |-> FALSE,
         error |-> None]

\* config.userdata.getbool('cleanup_on_exit', True)
cleanup_on_exit == TRUE

InitHarness ==
    /\ phase = "new"
    /\ tc_processes = <<>>
    /\ tc_goreman = 0
    /\ tc_coordinator = NoProcessInfo
    /\ tc_nodes = <<>>
    /\ tc_suspended_pids = <<>>
    /\ tc_test_dir = "none"
    /\ ctx_has_suspended_pids = FALSE
    /\ ctx_suspended_pids = <<>>
    /\ ctx_suspended_pid = 0
    /\ ctx_suspended_node = None
    /\ post_sweep = <<>>
    /\ last = NoOp
    /\ nstart = 0
    /\ nexit = 0
    /\ reaped = {}
    /\ waited = <<>>

\* No readiness gate has been called.  Time is counted in half seconds.
\* pc: the position in the loop; kind: the gate; timeout: its deadline;
\* start, now: time.time() at the call and at present; evals: evaluations of
\* the predicate begun; prev: when the previous one began; spaced: no two
\* consecutive evaluations began less than the poll interval apart; ready,
\* erred: whether an evaluation found the condition true, or met a connection
\* error; outcome: what the last one did; raised, result: how the gate ended.
NoGate == [pc |-> "idle", kind |-> None, timeout |-> 0, start |-> 0, now |-> 0,
           evals |-> 0, prev |-> -1, spaced |-> TRUE, ready |-> FALSE,
           erred |-> FALSE, outcome |-> None, raised |-> FALSE, result |-> None]

\* No pure helper has been called.
NoCalc == [fn |-> "none"]

\* No concurrent workload has run.
\* pc: where the step is ("idle", "submit": in the comprehension of
\* executor.submit, "collect": in the one of as_completed, "join": leaving the
\* with block, "done", "verified"); kind: "put" or "get"; ops: the arguments
\* of the calls to submit, in order; futures: one per call made; threads: the
\* worker threads of the executor; results: the list being built; raised: the
\* exception that left the step; awaited_at: the number of calls submitted
\* when a result was first awaited (-1 before); verify: how
\* step_verify_concurrent_gets ended.  The other fields are attributes of
\* the context.
NoPool == [pc |-> "idle", kind |-> None, max_workers |-> 0, ops |-> <<>>,
           futures |-> <<>>, threads |-> 0, results |-> <<>>, raised |-> None,
           awaited_at |-> -1, verify |-> None,
           concurrent_keys |-> <<>>, concurrent_values |-> <<>>,
           concurrent_results |-> <<>>, concurrent_get_results |-> <<>>,
           test_keys |-> <<>>]

\* No scenario has run.  The context is taken as one namespace: test_keys,
\* responses and errors are its attributes (has_*: the attribute exists).
\* pc: "idle" between scenarios, "running" inside one; n: scenarios begun;
\* fresh: no step of the scenario has run yet; failed: a step has failed;
\* prev_failed: the scenario before failed; deleted: the keys that the last
\* after_scenario asked the coordinator to delete; delete_raised: whether
\* those requests raised; put_urls, delete_urls: the URLs, as <<route, key>>,
\* that step_put_value has requested in the scenario and that the last
\* after_scenario has requested.
NoScn == [pc |-> "idle", n |-> 0, fresh |-> FALSE, failed |-> FALSE,
          prev_failed |-> FALSE,
          has_test_keys |-> FALSE, test_keys |-> <<>>,
          has_responses |-> FALSE, responses |-> <<>>,
          has_errors |-> FALSE, errors |-> <<>>,
          deleted |-> <<>>, delete_raised |-> FALSE,
          put_urls |-> <<>>, delete_urls |-> <<>>]

\* Nothing besides the harness has run.
InitHelpers == gate = NoGate /\ calc = NoCalc /\ pool = NoPool /\ scn = NoScn

\* The harness starts on a machine with no other ./bin/node process.
Init == procs = <<>> /\ InitHarness /\ InitHelpers

\* The harness starts on a machine where another user's ./bin/node runs.
InitStale == procs = <<StaleProc>> /\ InitHarness /\ InitHelpers

----------------------------------------------------------------------------
\* Cluster start (TorquaEnvironment.start_cluster_with_goreman)

\* goreman mode: the harness launches goreman, which launches the services of
\* the Procfile; the harness holds a handle on goreman only.
start_with_goreman(ps) ==
    LET g   == Len(ps) + 1
        ps1 == Popen(ps, "goreman", None, 0)
        ps2 == Popen(ps1, "coordinator", None, g)
        ps3 == Popen(ps2, "node", "n1", g)
        ps4 == Popen(ps3, "node", "n2", g)
    IN [ps |-> ps4, goreman |-> g, processes |-> <<g>>]

\* direct mode: _start_coordinator_directly, then _start_node_directly for n1
\* and n2; every handle is appended to test_context.processes.
start_directly(ps) ==
    LET c   == Len(ps) + 1
        ps1 == Popen(ps, "coordinator", None, 0)
        ps2 == Popen(ps1, "node", "n1", 0)
        ps3 == Popen(ps2, "node", "n2", 0)
    IN [ps |-> ps3, goreman |-> 0, processes |-> <<c, c + 1, c + 2>>]

\* The waits of cluster start, in the order in which they are called:
\* <<"service", n>> is _wait_for_service for the health URL of n,
\* <<"registration", n>> is _wait_for_node_registration(n).  Direct start
\* waits in _start_coordinator_directly and in _start_node_directly; both
\* modes wait at the end of start_cluster_with_goreman.
Waits_without_registration(use_goreman) ==
    (IF use_goreman THEN <<>>
     ELSE <<<<"service", "coordinator">>, <<"service", "n1">>, <<"service", "n2">>>>)
    \o <<<<"service", "coordinator">>, <<"service", "n1">>, <<"service", "n2">>>>

Waits(use_goreman) ==
    (IF use_goreman THEN <<>>
     ELSE <<<<"service", "coordinator">>,
            <<"service", "n1">>, <<"registration", "n1">>,
            <<"service", "n2">>, <<"registration", "n2">>>>)
    \o <<<<"service", "coordinator">>, <<"service", "n1">>, <<"service", "n2">>,
          <<"registration", "n1">>, <<"registration", "n2">>>>

\* before_all when cluster start succeeds: setup_directories, then
\* start_cluster_with_goreman.  The records stored at the end of cluster
\* start, in both modes, are fresh ProcessInfo objects built from name, port
\* and host (no process, no pid).
start_cluster_with_goreman(use_goreman) ==
    /\ phase = "new"
    /\ tc_test_dir' = "present"
    /\ LET r == IF use_goreman THEN start_with_goreman(procs) ELSE start_directly(procs)
       IN /\ procs' = r.ps
          /\ tc_goreman' = r.goreman
          /\ tc_processes' = r.processes
    /\ tc_coordinator' = ProcessInfo("coordinator", coordinator_port, 0)
    /\ tc_nodes' = [n \in {"n1", "n2"} |-> ProcessInfo(n, PortOf(n), 0)]
    /\ phase' = "up"
    /\ last' = [NoOp EXCEPT !.op = "start_cluster"]
    /\ waited' = Waits(use_goreman)
    /\ UNCHANGED <<helper_vars, tc_suspended_pids, ctx_has_suspended_pids,
                   ctx_suspended_pids, ctx_suspended_pid, ctx_suspended_node,
                   post_sweep, nstart, nexit, reaped>>

\* start_node without the append of the handle to test_context.processes:
\* the record under node_name is the only place that holds the handle.
start_node_untracked(node_name, port) ==
    /\ phase = "up"
    /\ nstart < MaxStartNodes
    /\ LET pid == Len(procs) + 1
       IN /\ procs' = Popen(procs, "node", node_name, 0)
          /\ tc_nodes' = [n \in DOMAIN tc_nodes \cup {node_name} |->
                            IF n = node_name THEN ProcessInfo(node_name, port, pid)
                            ELSE tc_nodes[n]]
    /\ last' = [NoOp EXCEPT !.op = "start_node", !.node = node_name]
    /\ nstart' = nstart + 1
    /\ UNCHANGED <<helper_vars, waited, reaped, phase, tc_processes, tc_goreman,
                   tc_coordinator, tc_suspended_pids,
                   tc_test_dir, ctx_has_suspended_pids, ctx_suspended_pids,
                   ctx_suspended_pid, ctx_suspended_node, post_sweep, nexit>>

\* TorquaEnvironment.start_node: launches ./bin/node with NODE_ID=node_name and
\* stores a record that carries the handle under that name.
start_node(node_name, port) ==
    /\ phase = "up"
    /\ nstart < MaxStartNodes
    /\ LET pid == Len(procs) + 1
       IN /\ procs' = Popen(procs, "node", node_name, 0)
          /\ tc_processes' = Append(tc_processes, pid)
          /\ tc_nodes' = [n \in DOMAIN tc_nodes \cup {node_name} |->
                            IF n = node_name THEN ProcessInfo(node_name, port, pid)
                            ELSE tc_nodes[n]]
    /\ last' = [NoOp EXCEPT !.op = "start_node", !.node = node_name]
    /\ nstart' = nstart + 1
    /\ UNCHANGED <<helper_vars, waited, reaped, phase, tc_goreman, tc_coordinator,
                   tc_suspended_pids,
                   tc_test_dir, ctx_has_suspended_pids, ctx_suspended_pids,
                   ctx_suspended_pid, ctx_suspended_node, post_sweep, nexit>>

\* A running node process exits on its own (the "process already dead" case
\* the harness provides for).
ProcessExits(pid) ==
    /\ phase = "up"
    /\ nexit < MaxExits
    /\ pid \in DOMAIN procs
    /\ procs[pid].st = "running"
    /\ procs[pid].exe = "node"
    /\ procs[pid].ppid >= 0
    /\ procs' = [procs EXCEPT ![pid].st = "exited"]
    /\ nexit' = nexit + 1
    /\ UNCHANGED <<helper_vars, waited, reaped, phase, tc_processes, tc_goreman, tc_coordinator,
                   tc_nodes,
                   tc_suspended_pids, tc_test_dir, ctx_has_suspended_pids, ctx_suspended_pids,
                   ctx_suspended_pid, ctx_suspended_node, post_sweep, last, nstart>>

----------------------------------------------------------------------------
\* Fault injection (features/steps/cluster_management_steps.py)

\* SuspendedSet: the pids context.suspended_pids holds.
SuspendedSet == Range(ctx_suspended_pids)

\* matches with the NODE_ID comparison left out: every ./bin/node process of
\* the user is taken for a process of the node.
matches_any_node(p, node_id, node_port) ==
    /\ p.st # "exited"
    /\ p.exe = "node"
    /\ IF p.own THEN TRUE
                ELSE p.cmd_port = node_port

\* One process of the psutil scan: is it a process of node node_id?  A process
\* is a candidate when cmdline[0] holds ./bin/node; it matches by the NODE_ID of
\* its environment, or, when reading the environment is denied, by the port of
\* the node in its command line.
matches(p, node_id, node_port) ==
    /\ p.st # "exited"
    /\ p.exe = "node"
    /\ IF p.own THEN p.node_id = node_id
                ELSE p.cmd_port = node_port

\* target_pids after the scan of processes 1..k, in the order of process_iter.
RECURSIVE scan(_, _, _, _)
scan(ps, k, node_id, node_port) ==
    IF k = 0 THEN <<>>
    ELSE LET rest == scan(ps, k - 1, node_id, node_port)
         IN IF matches(ps[k], node_id, node_port) THEN Append(rest, k) ELSE rest

target_pids(ps, node_id, node_port) == scan(ps, Len(ps), node_id, node_port)

\* suspend_all with the try/except around the whole loop: the first failed
\* delivery ends the loop.
RECURSIVE suspend_all_abort(_, _, _)
suspend_all_abort(c, pids, node_id) ==
    IF pids = <<>> THEN c
    ELSE LET pid == Head(pids)
             r   == os_kill(c.ps, pid, "SIGSTOP")
         IN IF r.ok
            THEN suspend_all_abort(
                     [ps |-> r.ps,
                      suspended_node |-> node_id,
                      suspended_pid |-> pid,
                      suspended_pids |-> Append(c.suspended_pids, pid),
                      sigs |-> Append(c.sigs, Sig(pid, "SIGSTOP", TRUE, "suspend",
                                                  StateOf(c.ps, pid)))],
                     Tail(pids), node_id)
            ELSE [c EXCEPT !.sigs = Append(@, Sig(pid, "SIGSTOP", FALSE, "suspend",
                                                  StateOf(c.ps, pid)))]

\* suspend_all sending SIGKILL in place of SIGSTOP: the node is terminated,
\* not paused.
RECURSIVE suspend_all_kill(_, _, _)
suspend_all_kill(c, pids, node_id) ==
    IF pids = <<>> THEN c
    ELSE LET pid == Head(pids)
             r   == os_kill(c.ps, pid, "SIGKILL")
             c1  == IF r.ok
                    THEN [ps |-> r.ps,
                          suspended_node |-> node_id,
                          suspended_pid |-> pid,
                          suspended_pids |-> Append(c.suspended_pids, pid),
                          sigs |-> Append(c.sigs, Sig(pid, "SIGKILL", TRUE, "suspend",
                                                      StateOf(c.ps, pid)))]
                    ELSE [c EXCEPT !.sigs = Append(@, Sig(pid, "SIGKILL", FALSE, "suspend",
                                                          StateOf(c.ps, pid)))]
         IN suspend_all_kill(c1, Tail(pids), node_id)

\* The loop "for pid in target_pids": SIGSTOP to each pid; a pid whose signal
\* was delivered becomes context.suspended_pid and is appended to
\* context.suspended_pids; a failed delivery is skipped.
RECURSIVE suspend_all(_, _, _)
suspend_all(c, pids, node_id) ==
    IF pids = <<>> THEN c
    ELSE LET pid == Head(pids)
             r   == os_kill(c.ps, pid, "SIGSTOP")
             c1  == IF r.ok
                    THEN [ps |-> r.ps,
                          suspended_node |-> node_id,
                          suspended_pid |-> pid,
                          suspended_pids |-> Append(c.suspended_pids, pid),
                          sigs |-> Append(c.sigs, Sig(pid, "SIGSTOP", TRUE, "suspend",
                                                      StateOf(c.ps, pid)))]
                    ELSE [c EXCEPT !.sigs = Append(@, Sig(pid, "SIGSTOP", FALSE, "suspend",
                                                          StateOf(c.ps, pid)))]
         IN suspend_all(c1, Tail(pids), node_id)

\* step_node_stops_responding.  gone: the matching processes that exit between
\* the scan and their signal.
step_node_stops_responding(node_id) ==
    /\ phase = "up"
    /\ LET node_port == IF node_id \in DOMAIN tc_nodes THEN tc_nodes[node_id].port ELSE 0
           pids0     == IF ~ctx_has_suspended_pids THEN <<>> ELSE ctx_suspended_pids
           targets   == IF node_port # 0 THEN target_pids(procs, node_id, node_port) ELSE <<>>
       IN \E gone \in SUBSET {pid \in Range(targets) : procs[pid].st = "running"} :
            /\ Len(pids0) + Len(targets) <= MaxSuspended
            /\ nexit + Cardinality(gone) <= MaxExits
            /\ nexit' = nexit + Cardinality(gone)
            /\ LET ps0 == [pid \in DOMAIN procs |->
                             IF pid \in gone THEN [procs[pid] EXCEPT !.st = "exited"]
                             ELSE procs[pid]]
                   c0  == [ps |-> ps0, suspended_node |-> ctx_suspended_node,
                           suspended_pid |-> ctx_suspended_pid, suspended_pids |-> pids0,
                           sigs |-> <<>>]
                   c   == suspend_all(c0, targets, node_id)
               IN /\ procs' = c.ps
                  /\ ctx_has_suspended_pids' = TRUE
                  /\ ctx_suspended_pids' = c.suspended_pids
                  /\ ctx_suspended_pid' = c.suspended_pid
                  /\ ctx_suspended_node' = c.suspended_node
                  /\ last' = [op |-> "suspend", node |-> node_id, targets |-> targets,
                              sigs |-> c.sigs, raised |-> FALSE, error |-> None]
    /\ UNCHANGED <<helper_vars, waited, reaped, phase, tc_processes, tc_goreman, tc_coordinator,
                   tc_nodes,
                   tc_suspended_pids, tc_test_dir, post_sweep, nstart>>

\* step_node_recovers without the comparison of context.suspended_node with
\* the node of the step: any recovery resumes the pid suspended last.
step_node_recovers_any_node(node_id) ==
    /\ phase = "up"
    /\ IF ctx_suspended_pid # 0
       THEN LET r == os_kill(procs, ctx_suspended_pid, "SIGCONT")
            IN /\ procs' = r.ps
               /\ last' = [op |-> "resume", node |-> node_id,
                           targets |-> <<ctx_suspended_pid>>,
                           sigs |-> <<Sig(ctx_suspended_pid, "SIGCONT", r.ok, "resume",
                                          StateOf(procs, ctx_suspended_pid))>>,
                           raised |-> FALSE, error |-> None]
       ELSE /\ procs' = procs
            /\ last' = [op |-> "resume", node |-> node_id, targets |-> <<>>,
                        sigs |-> <<>>, raised |-> FALSE, error |-> None]
    /\ UNCHANGED <<helper_vars, waited, reaped, phase, tc_processes, tc_goreman, tc_coordinator,
                   tc_nodes,
                   tc_suspended_pids, tc_test_dir, ctx_has_suspended_pids, ctx_suspended_pids,
                   ctx_suspended_pid, ctx_suspended_node, post_sweep, nstart, nexit>>

\* step_node_recovers: SIGCONT to context.suspended_pid when the node is the
\* one recorded in context.suspended_node; a failed delivery is ignored.
step_node_recovers(node_id) ==
    /\ phase = "up"
    /\ IF ctx_suspended_pid # 0 /\ ctx_suspended_node = node_id
       THEN LET r == os_kill(procs, ctx_suspended_pid, "SIGCONT")
            IN /\ procs' = r.ps
               /\ last' = [op |-> "resume", node |-> node_id,
                           targets |-> <<ctx_suspended_pid>>,
                           sigs |-> <<Sig(ctx_suspended_pid, "SIGCONT", r.ok, "resume",
                                          StateOf(procs, ctx_suspended_pid))>>,
                           raised |-> FALSE, error |-> None]
       ELSE /\ procs' = procs
            /\ last' = [op |-> "resume", node |-> node_id, targets |-> <<>>,
                        sigs |-> <<>>, raised |-> FALSE, error |-> None]
    /\ UNCHANGED <<helper_vars, waited, reaped, phase, tc_processes, tc_goreman, tc_coordinator,
                   tc_nodes,
                   tc_suspended_pids, tc_test_dir, ctx_has_suspended_pids, ctx_suspended_pids,
                   ctx_suspended_pid, ctx_suspended_node, post_sweep, nstart, nexit>>

\* step_node_becomes_unavailable: terminate() on the node's handle and a wait
\* of 5 seconds, which raises TimeoutExpired when the process has not exited.
step_node_becomes_unavailable(node_name) ==
    /\ phase = "up"
    /\ IF node_name \in DOMAIN tc_nodes /\ tc_nodes[node_name].process # 0
       THEN LET pid == tc_nodes[node_name].process
            IN \E slow \in SUBSET {pid} :
                 /\ procs' = term_and_wait(procs, pid, slow)
                 /\ last' = [op |-> "unavailable", node |-> node_name, targets |-> <<pid>>,
                             sigs |-> IF poll_is_None(procs, pid)
                                      THEN <<Sig(pid, "SIGTERM", TRUE, "unavailable",
                                                 StateOf(procs, pid))>>
                                      ELSE <<>>,
                             raised |-> Alive(procs', pid),
                             error |-> IF Alive(procs', pid) THEN "TimeoutExpired"
                                       ELSE None]
                 /\ reaped' = reaped \cup {p \in {pid} : ~Alive(procs', p)}
       ELSE /\ procs' = procs
            /\ reaped' = reaped
            /\ last' = [op |-> "unavailable", node |-> node_name, targets |-> <<>>,
                        sigs |-> <<>>, raised |-> FALSE, error |-> None]
    /\ UNCHANGED <<helper_vars, waited, phase, tc_processes, tc_goreman, tc_coordinator,
                   tc_nodes,
                   tc_suspended_pids, tc_test_dir, ctx_has_suspended_pids, ctx_suspended_pids,
                   ctx_suspended_pid, ctx_suspended_node, post_sweep, nstart, nexit>>

----------------------------------------------------------------------------
\* Teardown (TorquaEnvironment.stop_all_processes)
\* A teardown state t is [ps, sigs]: the process table and the signals sent.

Log(t, ps, sig) == [ps |-> ps, sigs |-> Append(t.sigs, sig)]

\* Phase 1: SIGKILL to every pid of test_context.suspended_pids.
RECURSIVE sweep(_, _)
sweep(t, pids) ==
    IF pids = <<>> THEN t
    ELSE LET r == os_kill(t.ps, Head(pids), "SIGKILL")
         IN sweep(Log(t, r.ps, Sig(Head(pids), "SIGKILL", r.ok, "sweep",
                                   StateOf(t.ps, Head(pids)))),
                  Tail(pids))

\* goreman on SIGTERM: it forwards the termination to the services it started
\* and exits once they have all exited.
goreman_terminates(ps, g, slow) ==
    LET ps1 == [pid \in DOMAIN ps |->
                  IF ps[pid].ppid = g /\ ps[pid].st = "running" /\ pid \notin slow
                  THEN [ps[pid] EXCEPT !.st = "exited"]
                  ELSE ps[pid]]
    IN IF g \notin slow /\ \A pid \in DOMAIN ps1 : ps1[pid].ppid = g => ~Alive(ps1, pid)
       THEN [ps1 EXCEPT ![g].st = "exited"]
       ELSE ps1

\* Phase 2: SIGTERM to the process group of goreman, wait(timeout=5); when
\* that fails, kill() on goreman alone.  For a goreman that has exited
\* os.getpgid raises before a signal is sent, and kill() does nothing.
stop_goreman(t, g, slow) ==
    IF g = 0 THEN t
    ELSE IF ~Alive(t.ps, g) THEN t
    ELSE LET ps1 == goreman_terminates(t.ps, g, slow)
             t1  == Log(t, ps1, Sig(g, "SIGTERM", TRUE, "goreman", StateOf(t.ps, g)))
         IN IF Alive(ps1, g)
            THEN Log(t1, os_kill(ps1, g, "SIGKILL").ps,
                     Sig(g, "SIGKILL", TRUE, "goreman", StateOf(ps1, g)))
            ELSE t1

\* _stop_process with kill() in place of terminate() and the wait: the process
\* is killed at once.
stop_process_kill_first(t, process_info, slow, by) ==
    IF process_info.process = 0 THEN t
    ELSE LET pid == process_info.process
         IN IF poll_is_None(t.ps, pid)
            THEN Log(t, os_kill(t.ps, pid, "SIGKILL").ps,
                     Sig(pid, "SIGKILL", TRUE, by, StateOf(t.ps, pid)))
            ELSE t

\* _stop_process: terminate(), wait(timeout=5); on TimeoutExpired kill() and wait().
stop_process(t, process_info, slow, by) ==
    IF process_info.process = 0 THEN t
    ELSE LET pid == process_info.process
         IN IF poll_is_None(t.ps, pid)
            THEN LET ps1 == term_and_wait(t.ps, pid, slow)
                     t1  == Log(t, ps1, Sig(pid, "SIGTERM", TRUE, by, StateOf(t.ps, pid)))
                 IN IF Alive(ps1, pid)
                    THEN Log(t1, os_kill(ps1, pid, "SIGKILL").ps,
                             Sig(pid, "SIGKILL", TRUE, by, StateOf(ps1, pid)))
                    ELSE t1
            ELSE t

\* Phase 3: _stop_process for every node record that has a handle.
RECURSIVE stop_nodes(_, _, _, _)
stop_nodes(t, names, nodes, slow) ==
    IF names = <<>> THEN t
    ELSE LET n  == Head(names)
             t1 == IF n \in DOMAIN nodes /\ nodes[n].process # 0
                   THEN stop_process(t, nodes[n], slow, "node")
                   ELSE t
         IN stop_nodes(t1, Tail(names), nodes, slow)

\* Phase 4: _stop_process for the coordinator record when it has a handle.
stop_coordinator(t, coordinator, slow) ==
    IF coordinator.name # None /\ coordinator.process # 0
    THEN stop_process(t, coordinator, slow, "coordinator")
    ELSE t

\* The loop of phase 5 left at the first handle whose wait times out.
RECURSIVE stop_remaining_abort(_, _, _)
stop_remaining_abort(t, processes, slow) ==
    IF processes = <<>> THEN t
    ELSE LET pid == Head(processes)
         IN IF poll_is_None(t.ps, pid)
            THEN LET ps1 == term_and_wait(t.ps, pid, slow)
                     t2  == Log(t, ps1, Sig(pid, "SIGTERM", TRUE, "remaining",
                                            StateOf(t.ps, pid)))
                 IN IF Alive(ps1, pid)
                    THEN Log(t2, os_kill(ps1, pid, "SIGKILL").ps,
                             Sig(pid, "SIGKILL", TRUE, "remaining", StateOf(ps1, pid)))
                    ELSE stop_remaining_abort(t2, Tail(processes), slow)
            ELSE stop_remaining_abort(t, Tail(processes), slow)

\* The loop of phase 5 without kill() after a wait that timed out.
RECURSIVE stop_remaining_no_kill(_, _, _)
stop_remaining_no_kill(t, processes, slow) ==
    IF processes = <<>> THEN t
    ELSE LET pid == Head(processes)
             t1  == IF poll_is_None(t.ps, pid)
                    THEN Log(t, term_and_wait(t.ps, pid, slow),
                             Sig(pid, "SIGTERM", TRUE, "remaining", StateOf(t.ps, pid)))
                    ELSE t
         IN stop_remaining_no_kill(t1, Tail(processes), slow)

\* Phase 5: every handle of test_context.processes that has not exited gets
\* SIGTERM (to its process group) and wait(timeout=5), and kill() on failure.
RECURSIVE stop_remaining(_, _, _)
stop_remaining(t, processes, slow) ==
    IF processes = <<>> THEN t
    ELSE LET pid == Head(processes)
             t1  == IF poll_is_None(t.ps, pid)
                    THEN LET ps1 == term_and_wait(t.ps, pid, slow)
                             t2  == Log(t, ps1, Sig(pid, "SIGTERM", TRUE, "remaining",
                                                    StateOf(t.ps, pid)))
                         IN IF Alive(ps1, pid)
                            THEN Log(t2, os_kill(ps1, pid, "SIGKILL").ps,
                                     Sig(pid, "SIGKILL", TRUE, "remaining", StateOf(ps1, pid)))
                            ELSE t2
                    ELSE t
         IN stop_remaining(t1, Tail(processes), slow)

\* The fields of TestContext that cluster start writes and teardown reads.
TestContextOf(processes, goreman, coordinator, nodes, suspended_pids) ==
    [processes |-> processes, goreman |-> goreman, coordinator |-> coordinator,
     nodes |-> nodes, suspended_pids |-> suspended_pids]

\* The body of stop_all_processes on process table ps and TestContext tc:
\* the five phases in order.  It has no path that raises.  slow: the
\* processes that do not exit within the 5 seconds that follow a SIGTERM.
stop_all(ps, tc, slow) ==
    LET t1 == sweep([ps |-> ps, sigs |-> <<>>], tc.suspended_pids)
        t2 == stop_goreman(t1, tc.goreman, slow)
        t3 == stop_nodes(t2, NodeOrder, tc.nodes, slow)
        t4 == stop_coordinator(t3, tc.coordinator, slow)
        t5 == stop_remaining(t4, tc.processes, slow)
    IN [swept |-> t1.ps, ps |-> t5.ps, sigs |-> t5.sigs, raised |-> FALSE]

\* The handles of TestContext tc whose exit teardown has collected when it
\* leaves process table ps having sent sigs: the handles that have exited,
\* but for those that got kill() with no wait() after it (goreman, and the
\* handles of phase 5).
Collected(ps, tc, sigs) ==
    {pid \in Range(tc.processes) \cup {tc.goreman, tc.coordinator.process}
              \cup {tc.nodes[n].process : n \in DOMAIN tc.nodes} :
        /\ pid # 0
        /\ ~Alive(ps, pid)
        /\ ~\E i \in DOMAIN sigs :
              /\ sigs[i].pid = pid
              /\ sigs[i].sig = "SIGKILL"
              /\ sigs[i].by \in {"goreman", "remaining"}}

\* The processes a teardown may find slow to exit.
MaySlow(ps) == {pid \in DOMAIN ps : ps[pid].st = "running" /\ ps[pid].ppid >= 0}

\* stop_all_processes, as after_all calls it.
stop_all_processes ==
    /\ phase \in {"up", "down"}
    /\ \E slow \in SUBSET MaySlow(procs) :
         /\ Cardinality(slow) <= MaxSlow
         /\ LET t == stop_all(procs,
                              TestContextOf(tc_processes, tc_goreman, tc_coordinator,
                                            tc_nodes, tc_suspended_pids),
                              slow)
            IN /\ post_sweep' = t.swept
               /\ procs' = t.ps
               /\ last' = [op |-> "stop_all", node |-> None, targets |-> tc_suspended_pids,
                           sigs |-> t.sigs, raised |-> t.raised, error |-> None]
    /\ reaped' = reaped \cup
                  Collected(procs', TestContextOf(tc_processes, tc_goreman, tc_coordinator,
                                                  tc_nodes, tc_suspended_pids), last'.sigs)
    /\ tc_suspended_pids' = <<>>
    /\ phase' = "down"
    /\ UNCHANGED <<helper_vars, waited, tc_processes, tc_goreman, tc_coordinator, tc_nodes,
                   ctx_has_suspended_pids, ctx_suspended_pids,
                   ctx_suspended_pid, ctx_suspended_node, nstart, nexit>>

\* cleanup_directories: rmtree of the test directory when there is one and
\* cleanup_on_exit is set.
cleanup_directories ==
    tc_test_dir' = IF tc_test_dir # "none" /\ cleanup_on_exit THEN "removed"
                   ELSE tc_test_dir

\* after_all: stop_all_processes, then cleanup_directories.
after_all == stop_all_processes /\ cleanup_directories

----------------------------------------------------------------------------
\* Cluster start that fails (before_all, the except branch)

\* The places where start_cluster_with_goreman can raise: a build, the
\* readiness wait of _start_coordinator_directly, the waits of
\* _start_node_directly for n1 and for n2, and the waits at the end.
Stages == {"build", "coordinator", "n1", "n2", "ready"}

\* A process whose readiness wait failed may have exited by then.
Exited(ps, pid, dead) == IF dead THEN [ps EXCEPT ![pid].st = "exited"] ELSE ps

\* The process table and the TestContext at the time cluster start raises at
\* stage.  In direct mode the records written so far are the ones of
\* _start_coordinator_directly and _start_node_directly, which carry the
\* handles; at stage "ready" they have been replaced by the fresh records.
failed_start(ps, use_goreman, stage, dead) ==
    LET c  == Len(ps) + 1
        d  == start_directly(ps)
        g  == start_with_goreman(ps)
        co == ProcessInfo("coordinator", coordinator_port, c)
        n1 == ProcessInfo("n1", node1_port, c + 1)
        n2 == ProcessInfo("n2", node2_port, c + 2)
        fresh == [n \in {"n1", "n2"} |-> ProcessInfo(n, PortOf(n), 0)]
    IN CASE stage = "build" ->
              [ps |-> ps, tc |-> TestContextOf(<<>>, 0, NoProcessInfo, <<>>, <<>>)]
         [] stage = "ready" /\ use_goreman ->
              [ps |-> g.ps,
               tc |-> TestContextOf(g.processes, g.goreman,
                                    ProcessInfo("coordinator", coordinator_port, 0),
                                    fresh, <<>>)]
         [] stage = "ready" /\ ~use_goreman ->
              [ps |-> d.ps,
               tc |-> TestContextOf(d.processes, 0,
                                    ProcessInfo("coordinator", coordinator_port, 0),
                                    fresh, <<>>)]
         [] stage = "coordinator" ->
              [ps |-> Exited(SubSeq(d.ps, 1, c), c, dead),
               tc |-> TestContextOf(<<c>>, 0, co, <<>>, <<>>)]
         [] stage = "n1" ->
              [ps |-> Exited(SubSeq(d.ps, 1, c + 1), c + 1, dead),
               tc |-> TestContextOf(<<c, c + 1>>, 0, co, [n \in {"n1"} |-> n1], <<>>)]
         [] OTHER ->
              [ps |-> Exited(d.ps, c + 2, dead),
               tc |-> TestContextOf(d.processes, 0, co,
                                    [n \in {"n1", "n2"} |-> IF n = "n1" THEN n1 ELSE n2],
                                    <<>>)]

\* The numbers of waits that can have passed when cluster start raises at
\* stage: none before a build fails; at a later stage, those of the earlier
\* stages and any of its own but the last.
StageWaits(use_goreman, stage) ==
    CASE stage = "build" -> {0}
      [] stage = "coordinator" -> {0}
      [] stage = "n1" -> {1, 2}
      [] stage = "n2" -> {3, 4}
      [] OTHER -> IF use_goreman THEN 0..4 ELSE 5..9

\* before_all when cluster start raises: stop_all_processes, then
\* cleanup_directories, then the exception of cluster start is raised again.
\* With goreman the services are started by goreman, so cluster start raises
\* in a build or in the waits at the end.
before_all_fails(use_goreman, stage) ==
    /\ phase = "new"
    /\ use_goreman => stage \in {"build", "ready"}
    /\ \E dead \in BOOLEAN :
         /\ dead => stage \in {"coordinator", "n1", "n2"}
         /\ LET r == failed_start(procs, use_goreman, stage, dead)
            IN \E slow \in SUBSET MaySlow(r.ps) :
                 /\ Cardinality(slow) <= MaxSlow
                 /\ LET t == stop_all(r.ps, r.tc, slow)
                    IN /\ procs' = t.ps
                       /\ post_sweep' = t.swept
                       /\ last' = [op |-> "setup_failed", node |-> None,
                                   targets |-> <<>>, sigs |-> t.sigs,
                                   raised |-> TRUE,
                                   error |-> IF t.raised THEN "cleanup" ELSE "setup"]
                 /\ tc_processes' = r.tc.processes
                 /\ tc_goreman' = r.tc.goreman
                 /\ tc_coordinator' = r.tc.coordinator
                 /\ tc_nodes' = r.tc.nodes
    /\ reaped' = reaped \cup
                  Collected(procs', TestContextOf(tc_processes', tc_goreman', tc_coordinator',
                                                  tc_nodes', <<>>), last'.sigs)
    /\ tc_suspended_pids' = <<>>
    /\ tc_test_dir' = IF cleanup_on_exit THEN "removed" ELSE "present"
    /\ phase' = "down"
    /\ \E k \in StageWaits(use_goreman, stage) :
         waited' = SubSeq(Waits(use_goreman), 1, k)
    /\ UNCHANGED <<helper_vars, ctx_has_suspended_pids, ctx_suspended_pids,
                   ctx_suspended_pid, ctx_suspended_node, nstart, nexit>>

----------------------------------------------------------------------------
Next ==
    \/ \E use_goreman \in BOOLEAN : start_cluster_with_goreman(use_goreman)
    \/ \E n \in StartNames, port \in StartPorts : start_node(n, port)
    \/ \E pid \in 1..MaxPid : ProcessExits(pid)
    \/ \E n \in FaultNodes : step_node_stops_responding(n)
    \/ \E n \in FaultNodes : step_node_recovers(n)
    \/ \E n \in FaultNodes : step_node_becomes_unavailable(n)
    \/ \E use_goreman \in BOOLEAN, stage \in Stages :
          before_all_fails(use_goreman, stage)
    \/ after_all

Spec == Init /\ [][Next]_vars

SpecStale == InitStale /\ [][Next]_vars

----------------------------------------------------------------------------
\* Properties

\* Processes the harness launched, directly or through goreman.
Launched == {pid \in DOMAIN procs : procs[pid].ppid >= 0}

\* Live ./bin/node processes that carry the identity of node n: NODE_ID = n
\* where the environment can be read, the listen port of n on the command
\* line where it cannot.
ProcessesOf(n) ==
    {pid \in DOMAIN procs :
        /\ Alive(procs, pid)
        /\ procs[pid].exe = "node"
        /\ \/ procs[pid].own /\ procs[pid].node_id = n
           \/ ~procs[pid].own /\ n \in DOMAIN tc_nodes
                              /\ procs[pid].cmd_port = tc_nodes[n].port}

\* Pids recorded as suspended for node n.
SuspendedFor(n) == {pid \in SuspendedSet : procs[pid].node_id = n}

SigsOf(op) == IF last.op = op THEN Range(last.sigs) ELSE {}

\* C1: once stop_all_processes has returned, no process launched by the
\* harness (in goreman mode or direct mode, or by start_node) is alive.
C1_NoLaunchedProcessAlive ==
    phase = "down" => \A pid \in Launched : procs[pid].st = "exited"

\* C2: a process that is suspended when teardown starts is no longer alive
\* after the sweep phase of stop_all_processes.
C2_SweepKillsSuspended ==
    phase = "down" =>
        \A pid \in SuspendedSet : StateOf(post_sweep, pid) # "suspended"

\* C3: whenever teardown can start, every pid that suspend recorded and that
\* is still suspended is in the collection the sweep iterates.
C3_SweepIteratesSuspendSet ==
    phase = "up" =>
        \A pid \in SuspendedSet :
            procs[pid].st = "suspended" => pid \in Range(tc_suspended_pids)

\* C4: after teardown no pid remains recorded as suspended: every pid added
\* to the suspended set has been removed by its resume or by the sweep.
C4_SuspendedSetEmptyAfterTeardown ==
    phase = "down" => SuspendedSet = {}

\* C5: after a resume that signalled a pid, that pid is absent from the
\* suspended set.
C5_ResumedPidAbsent ==
    \A sg \in SigsOf("resume") : sg.pid \notin SuspendedSet

\* C6: after resume of a node, no process that was suspended for that node
\* is still stopped: each of them has been continued.
C6_ResumeContinuesAll ==
    last.op = "resume" =>
        \A pid \in SuspendedFor(last.node) : procs[pid].st # "suspended"

\* C7: resume of a node none of whose pids is in the suspended set is a
\* no-op: no signal, no error, the suspended set and every process unchanged.
C7_ResumeOfUnsuspendedIsNoOp ==
    [][\A n \in FaultNodes :
          (step_node_recovers(n) /\ SuspendedFor(n) = {}) =>
              /\ procs' = procs
              /\ ctx_suspended_pids' = ctx_suspended_pids
              /\ ctx_suspended_pid' = ctx_suspended_pid
              /\ last'.sigs = <<>>
              /\ ~last'.raised]_vars

\* A recovery step for a node that is not suspended, while another node is.
C7_Witness ==
    /\ last.op = "resume"
    /\ last.sigs = <<>>
    /\ SuspendedFor(last.node) = {}
    /\ \E pid \in SuspendedSet : procs[pid].st = "suspended"

\* C8: suspend of an identity that matches no running process (unknown node
\* name, or no process with that identity) sends no signal, raises nothing
\* and leaves the suspended set and every process unchanged.
C8_SuspendOfNoProcessIsNoOp ==
    [][\A n \in FaultNodes :
          (step_node_stops_responding(n)
           /\ (n \notin DOMAIN tc_nodes \/ ProcessesOf(n) = {})) =>
              /\ procs' = procs
              /\ ctx_suspended_pids' = ctx_suspended_pids
              /\ ctx_suspended_pid' = ctx_suspended_pid
              /\ ctx_suspended_node' = ctx_suspended_node
              /\ last'.sigs = <<>>
              /\ ~last'.raised]_vars

\* A suspend step for a known node whose process has exited, while another
\* node process runs.
C8_Witness ==
    /\ last.op = "suspend"
    /\ last.node \in DOMAIN tc_nodes
    /\ last.sigs = <<>>
    /\ ProcessesOf(last.node) = {}
    /\ \E pid \in Launched : procs[pid].exe = "node" /\ procs[pid].st = "running"

\* C9: the lifecycle of a process.  It starts Running (in a cluster start
\* that failed, the teardown of the same step may have ended it already); it
\* becomes Suspended only from Running and only in a suspend step; a suspend
\* step sends nothing but the stop signal, and a process it signalled is
\* Suspended, not exited, after it; a Suspended process runs again only by
\* the continue signal of a resume step; an exited process stays exited.
C9_Lifecycle ==
    [][/\ \A pid \in DOMAIN procs' \ DOMAIN procs :
            \/ procs'[pid].st = "running"
            \/ last'.op = "setup_failed" /\ procs'[pid].st = "exited"
       /\ \A pid \in DOMAIN procs :
            /\ procs[pid].st = "exited" => procs'[pid].st = "exited"
            /\ (procs[pid].st # "suspended" /\ procs'[pid].st = "suspended") =>
                  /\ procs[pid].st = "running"
                  /\ \E n \in FaultNodes : step_node_stops_responding(n)
            /\ (procs[pid].st = "suspended" /\ procs'[pid].st = "running") =>
                  /\ \E n \in FaultNodes : step_node_recovers(n)
                  /\ \E sg \in Range(last'.sigs) : sg.pid = pid /\ sg.sig = "SIGCONT"
       /\ (\E n \in FaultNodes : step_node_stops_responding(n)) =>
            \A sg \in Range(last'.sigs) :
                /\ sg.sig = "SIGSTOP"
                /\ sg.ok => procs'[sg.pid].st = "suspended"]_vars

\* A process is suspended for the second time after it ran again.
C9_Witness ==
    /\ last.op = "suspend"
    /\ \E sg \in Range(last.sigs) :
          /\ sg.ok /\ sg.was = "running"
          /\ procs[sg.pid].st = "suspended"
          /\ Cardinality({i \in DOMAIN ctx_suspended_pids :
                             ctx_suspended_pids[i] = sg.pid}) = 2

\* C10: suspend, resume and the sweep raise nothing, and a failed delivery
\* to one pid does not keep suspend from signalling the remaining pids:
\* every pid of the scan is signalled, in order, and every matching process
\* that can be signalled is stopped.
C10_DeliveryFailureIsolated ==
    /\ last.op \in {"suspend", "resume", "stop_all"} => ~last.raised
    /\ last.op = "suspend" =>
          /\ Len(last.sigs) = Len(last.targets)
          /\ \A i \in DOMAIN last.targets : last.sigs[i].pid = last.targets[i]
          /\ \A pid \in Range(last.targets) :
                (Alive(procs, pid) /\ procs[pid].own) => procs[pid].st = "suspended"

\* A suspend whose first delivery failed and whose second succeeded.
C10_Witness ==
    /\ last.op = "suspend"
    /\ Len(last.sigs) = 2
    /\ ~last.sigs[1].ok
    /\ last.sigs[2].ok
    /\ procs[last.sigs[2].pid].st = "suspended"

\* The signals of a teardown: the one of after_all, or the one of a cluster
\* start that failed.
StopSigs == IF last.op \in {"stop_all", "setup_failed"} THEN last.sigs ELSE <<>>

\* The code that stops one handle gracefully: _stop_process (for a node and
\* for the coordinator) and the loop over the remaining handles.
GracefulBy == {"node", "coordinator", "remaining"}

\* C11: graceful stop of a handle that has not exited sends SIGTERM first;
\* SIGKILL follows only on the same handle, directly after its SIGTERM and
\* only when the process was still alive after the wait; a process that was
\* suspended at its SIGTERM is killed; every handle so stopped has exited.
C11_GracefulStopEscalates ==
    \A i \in DOMAIN StopSigs :
        LET sg == StopSigs[i] IN
        sg.by \in GracefulBy =>
            /\ sg.sig \in {"SIGTERM", "SIGKILL"}
            /\ sg.was \in {"running", "suspended"}
            /\ sg.sig = "SIGTERM" => \A j \in 1..(i - 1) : StopSigs[j].pid # sg.pid
            /\ sg.sig = "SIGKILL" =>
                  /\ i > 1
                  /\ StopSigs[i - 1].pid = sg.pid
                  /\ StopSigs[i - 1].sig = "SIGTERM"
                  /\ StopSigs[i - 1].by = sg.by
            /\ (sg.sig = "SIGTERM" /\ sg.was = "suspended") =>
                  /\ i < Len(StopSigs)
                  /\ StopSigs[i + 1].pid = sg.pid
                  /\ StopSigs[i + 1].sig = "SIGKILL"
            /\ procs[sg.pid].st = "exited"

\* _stop_process on a node that was suspended: SIGTERM, then SIGKILL after
\* the wait; and in the same teardown a running handle left on SIGTERM alone.
C11_Witness ==
    /\ last.op = "stop_all"
    /\ \E i \in DOMAIN StopSigs :
          /\ StopSigs[i].by = "node"
          /\ StopSigs[i].sig = "SIGTERM"
          /\ StopSigs[i].was = "suspended"
          /\ i < Len(StopSigs)
          /\ StopSigs[i + 1].sig = "SIGKILL"
          /\ procs[StopSigs[i].pid].st = "exited"
    /\ \E i \in DOMAIN StopSigs :
          /\ StopSigs[i].by = "remaining"
          /\ StopSigs[i].sig = "SIGTERM"
          /\ StopSigs[i].was = "running"
          /\ \A j \in DOMAIN StopSigs :
                StopSigs[j].pid = StopSigs[i].pid => StopSigs[j].sig # "SIGKILL"
          /\ procs[StopSigs[i].pid].st = "exited"

\* The handles teardown is responsible for: test_context.processes and the
\* handles of the node and coordinator records.
Managed ==
    (Range(tc_processes) \cup {tc_nodes[n].process : n \in DOMAIN tc_nodes}
                        \cup {tc_coordinator.process}) \ {0}

\* C12: a teardown raises nothing and leaves no managed handle alive,
\* whatever happened to the handles before it in the order: already dead,
\* or not stopped by SIGTERM within the wait.
C12_TeardownIsTotalEffort ==
    last.op \in {"stop_all", "setup_failed"} =>
        /\ last.error # "cleanup"
        /\ last.op = "stop_all" => ~last.raised
        /\ \A pid \in Managed : procs[pid].st = "exited"

\* A teardown in which one handle was found dead, an other handle had to be
\* killed after its wait timed out, and a handle later in the order was
\* still stopped.
C12_Witness ==
    /\ last.op = "stop_all"
    /\ \E a, b, c \in DOMAIN tc_processes :
          /\ a < c /\ b < c
          /\ \A i \in DOMAIN StopSigs : StopSigs[i].pid # tc_processes[a]
          /\ \E i \in DOMAIN StopSigs :
                StopSigs[i].pid = tc_processes[b] /\ StopSigs[i].sig = "SIGKILL"
          /\ \E i \in DOMAIN StopSigs :
                StopSigs[i].pid = tc_processes[c] /\ StopSigs[i].sig = "SIGTERM"
          /\ procs[tc_processes[c]].st = "exited"

\* How each stopping code path addresses its SIGTERM: os.killpg on the
\* process group of the handle (goreman, the remaining handles), or
\* Popen.terminate() on the process alone (_stop_process).
SentTo(by) == IF by \in {"goreman", "remaining"} THEN "group" ELSE "process"

\* C13: the SIGTERM of every stop of a teardown is addressed to the process
\* group of the process that is stopped.
C13_TermReachesGroup ==
    \A i \in DOMAIN StopSigs :
        StopSigs[i].sig = "SIGTERM" => SentTo(StopSigs[i].by) = "group"

\* C14: when cluster start fails, no process launched so far is left alive,
\* the test directory is removed, and the error raised is the one of the
\* cluster start.
C14_SetupFailureCleansUp ==
    last.op = "setup_failed" =>
        /\ \A pid \in Launched : procs[pid].st = "exited"
        /\ tc_test_dir = "removed"
        /\ last.raised
        /\ last.error = "setup"

\* C15: stop_all_processes called when a teardown has already completed
\* sends no signal, raises nothing, and changes neither a process nor the
\* TestContext.
C15_SecondTeardownIsNoOp ==
    [][(phase = "down" /\ stop_all_processes) =>
          /\ procs' = procs
          /\ last'.sigs = <<>>
          /\ ~last'.raised
          /\ UNCHANGED <<tc_processes, tc_goreman, tc_coordinator, tc_nodes,
                         tc_suspended_pids>>]_vars

\* A teardown that sent no signal although a goreman or a coordinator is
\* among the handles: these never exit on their own, so an earlier teardown
\* has stopped them (goreman after its wait timed out), and a service that
\* teardown left alive is still there.
C15_Witness ==
    /\ last.op = "stop_all"
    /\ last.sigs = <<>>
    /\ \E pid \in Range(tc_processes) :
          procs[pid].exe \in {"goreman", "coordinator"} /\ procs[pid].st = "exited"
    /\ \E pid \in Launched : procs[pid].st # "exited"

----------------------------------------------------------------------------
\* Readiness gates: wait_for_condition (cluster_management_steps.py) and the
\* tenacity retry around _wait_for_service and _wait_for_node_registration
\* (environment.py).  Time is counted in half seconds.

\* poll_interval=0.5 of wait_for_condition, wait_fixed(0.5) of the retries.
poll_interval == 1

\* Deadlines of wait_for_condition: the 1 and 2 seconds that the steps pass,
\* and a deadline of zero.
Timeouts == {0, 2, 4}

\* stop_after_delay(10) of _wait_for_node_registration.
RetryDelays == {20}

\* stop_after_delay(30) of _wait_for_service.
ServiceDelays == {60}

\* startup_timeout of the configuration: 10 seconds unless the user sets it.
startup_timeout == 20

\* Longest time one evaluation of the predicate takes (an HTTP request).
MaxEvalTicks == 2

\* What an evaluation of the predicate can do: find the condition true, find
\* it false (for a retry: raise for a status or a missing registration), or
\* raise a connection error.
Outcomes == {"true", "false", "error"}

\* The call of a gate: start_time = time.time().  wait_for_condition tests
\* its deadline first; a retry begins with an attempt.
GateCall(kind, timeout) ==
    /\ gate.pc = "idle"
    /\ gate' = [NoGate EXCEPT !.pc = IF kind = "wait_for_condition" THEN "test"
                                     ELSE "check",
                              !.kind = kind, !.timeout = timeout]
    /\ UNCHANGED <<harness_vars, calc, pool, scn>>

\* The loop of wait_for_condition with its test after the body: the
\* predicate is evaluated once before the clock is looked at.
GateTest_after_body ==
    /\ gate.pc = "test"
    /\ gate' = IF gate.evals = 0 \/ gate.now - gate.start < gate.timeout
               THEN [gate EXCEPT !.pc = "check"]
               ELSE [gate EXCEPT !.pc = "done", !.result = "False"]
    /\ UNCHANGED <<harness_vars, calc, pool, scn>>

\* wait_for_condition: while time.time() - start_time < timeout_seconds;
\* when the test fails, return False.
GateTest ==
    /\ gate.pc = "test"
    /\ gate' = IF gate.now - gate.start < gate.timeout
               THEN [gate EXCEPT !.pc = "check"]
               ELSE [gate EXCEPT !.pc = "done", !.result = "False"]
    /\ UNCHANGED <<harness_vars, calc, pool, scn>>

\* One evaluation of the predicate, which takes d half seconds.
\* wait_for_condition returns True when it is true, goes to sleep when it is
\* false, and has no handler for an exception of check_func.  A retry returns
\* when the call returns; on any exception it raises RetryError once the
\* delay since the start has passed, and sleeps otherwise.
GateCheck(outcome, d) ==
    /\ gate.pc = "check"
    /\ LET g == [gate EXCEPT !.evals = @ + 1,
                             !.spaced = @ /\ (gate.prev = -1
                                              \/ gate.now - gate.prev >= poll_interval),
                             !.prev = gate.now,
                             !.now = @ + d,
                             !.outcome = outcome,
                             !.ready = (outcome = "true"),
                             !.erred = @ \/ (outcome = "error")]
       IN gate' =
            IF gate.kind = "wait_for_condition"
            THEN CASE outcome = "true"  -> [g EXCEPT !.pc = "done", !.result = "True"]
                   [] outcome = "false" -> [g EXCEPT !.pc = "sleep"]
                   [] OTHER -> [g EXCEPT !.pc = "done", !.raised = TRUE,
                                         !.result = "ConnectionError"]
            ELSE CASE outcome = "true" -> [g EXCEPT !.pc = "done", !.result = "None"]
                   [] g.now - g.start >= g.timeout ->
                        [g EXCEPT !.pc = "done", !.raised = TRUE, !.result = "RetryError"]
                   [] OTHER -> [g EXCEPT !.pc = "sleep"]
    /\ UNCHANGED <<harness_vars, calc, pool, scn>>

\* time.sleep(poll_interval), wait_fixed(0.5).
GateSleep ==
    /\ gate.pc = "sleep"
    /\ gate' = [gate EXCEPT !.now = @ + poll_interval,
                            !.pc = IF gate.kind = "wait_for_condition" THEN "test"
                                   ELSE "check"]
    /\ UNCHANGED <<harness_vars, calc, pool, scn>>

NextGate ==
    \/ \E timeout \in Timeouts : GateCall("wait_for_condition", timeout)
    \/ \E delay \in RetryDelays : GateCall("retry", delay)
    \/ \E delay \in ServiceDelays : GateCall("wait_for_service", delay)
    \/ GateTest
    \/ \E outcome \in Outcomes, d \in 0..MaxEvalTicks : GateCheck(outcome, d)
    \/ GateSleep

SpecGate == Init /\ [][NextGate]_vars

\* The gates on a thread that keeps running: the test of the clock is made,
\* an evaluation of the predicate ends, a sleep returns.
SpecGateLive ==
    /\ Init
    /\ [][NextGate]_vars
    /\ WF_vars(GateTest)
    /\ WF_vars(\E outcome \in Outcomes, d \in 0..MaxEvalTicks : GateCheck(outcome, d))
    /\ WF_vars(GateSleep)

\* The gate has ended at or after its deadline, and every evaluation found
\* the condition false.
TimedOut ==
    /\ gate.pc = "done"
    /\ ~gate.ready
    /\ ~gate.erred
    /\ gate.now - gate.start >= gate.timeout

\* C16: a gate whose predicate has not become true by the deadline ends by
\* raising a timeout error; it does not return.
C16_TimeoutRaises ==
    TimedOut => gate.raised /\ gate.result \in {"ReadinessTimeoutError", "RetryError"}

\* C17: when wait_for_condition gives up on a predicate that was false at
\* every evaluation, it has evaluated it at least timeout / poll_interval
\* times, and no two consecutive evaluations began less than poll_interval
\* apart.
C17_EvaluatesOftenEnough ==
    (gate.kind = "wait_for_condition" /\ gate.pc = "done" /\ gate.result = "False") =>
        /\ gate.evals * poll_interval >= gate.timeout
        /\ gate.spaced

\* C18: a connection error of an evaluation that ends before the deadline
\* does not end the gate: the gate goes on polling, and no connection error
\* reaches its caller.
C18_ConnectionErrorIsNotReady ==
    /\ gate.result # "ConnectionError"
    /\ (gate.outcome = "error" /\ gate.now - gate.start < gate.timeout) =>
          gate.pc # "done"

----------------------------------------------------------------------------
\* Pure helpers: the registration checks and the shard variance.
\* A string is a sequence of characters.

Digit(d) == <<"0", "1", "2", "3", "4", "5", "6", "7", "8", "9">>[d + 1]

\* str(port)
RECURSIVE Str(_)
Str(n) == IF n < 10 THEN <<Digit(n)>> ELSE Str(n \div 10) \o <<Digit(n % 10)>>

\* addr.endswith(suffix)
endswith(addr, suffix) ==
    /\ Len(suffix) <= Len(addr)
    /\ SubSeq(addr, Len(addr) - Len(suffix) + 1, Len(addr)) = suffix

\* sub in addr
contains(addr, sub) ==
    \E i \in 1..(Len(addr) - Len(sub) + 1) : SubSeq(addr, i, i + Len(sub) - 1) = sub

\* Entries of the coordinator's node list: an id, and the address the node
\* registered (absent, "h:<port>" or "h:<port>/").
Host == <<"h", ":">>
RegPorts == {node1_port, node3_port}
Addrs == {<<>>} \cup {Host \o Str(port) \o tail :
                         port \in RegPorts, tail \in {<<>>, <<"/">>}}
Entries == [id : {"n1", "x"}, addr : Addrs]

\* Longest node list.
MaxNodes == 2

NodeLists == UNION {[1..k -> Entries] : k \in 0..MaxNodes}

\* _wait_for_node_registration: an entry with the id, or, when the name is in
\* test_context.nodes, an entry whose address ends with the port of its record.
wait_for_node_registration(node_name, tc_ports, nodes) ==
    \/ \E i \in DOMAIN nodes : nodes[i].id = node_name
    \/ /\ node_name \in DOMAIN tc_ports
       /\ \E i \in DOMAIN nodes : endswith(nodes[i].addr, Str(tc_ports[node_name]))

\* step_verify_node_auto_registration: any(id == node_id or
\* str(context.new_node_port) in addr).
step_verify_node_auto_registration(node_id, new_node_port, nodes) ==
    \E i \in DOMAIN nodes :
        nodes[i].id = node_id \/ contains(nodes[i].addr, Str(new_node_port))

\* step_node_running: any(addr.endswith(str(port)) or id == node_name).
step_node_running(node_name, port, nodes) ==
    \E i \in DOMAIN nodes :
        endswith(nodes[i].addr, Str(port)) \/ nodes[i].id = node_name

\* The three checks applied to one node name, expected port and node list.
check_registration(node_name, port, nodes) ==
    /\ calc.fn = "none"
    /\ calc' = [fn |-> "registration", node_name |-> node_name, port |-> port,
                nodes |-> nodes,
                wait |-> wait_for_node_registration(
                             node_name, [n \in {node_name} |-> port], nodes),
                auto |-> step_verify_node_auto_registration(node_name, port, nodes),
                running |-> step_node_running(node_name, port, nodes)]
    /\ UNCHANGED <<harness_vars, gate, pool, scn>>

\* Values of 'NodeID' in the entries of the shard list: a node id, or None
\* for an entry without one.
ShardOwners == {"n1", "n2", None}

\* Longest shard list.
MaxShards == 4

ShardLists == UNION {[1..k -> ShardOwners] : k \in 0..MaxShards}

\* node_shard_counts: the dict built by the loop over the shards; an entry
\* without NodeID is skipped.
RECURSIVE node_shard_counts(_)
node_shard_counts(shards) ==
    IF shards = <<>> THEN <<>>
    ELSE LET rest    == node_shard_counts(SubSeq(shards, 1, Len(shards) - 1))
             node_id == shards[Len(shards)]
         IN IF node_id = None THEN rest
            ELSE [n \in DOMAIN rest \cup {node_id} |->
                    IF n = node_id
                    THEN (IF n \in DOMAIN rest THEN rest[n] ELSE 0) + 1
                    ELSE rest[n]]

\* sum(counts), for the values of the keys given.
RECURSIVE sum(_, _)
sum(counts, keys) ==
    IF keys = {} THEN 0
    ELSE LET k == CHOOSE k \in keys : TRUE
         IN counts[k] + sum(counts, keys \ {k})

\* sum((x - mean) ** 2 for x in counts) in units of 1 / n^2, with
\* mean = total / n: the sum of (n * x - total)^2.
RECURSIVE sum_sq_dev(_, _, _, _)
sum_sq_dev(counts, keys, n, total) ==
    IF keys = {} THEN 0
    ELSE LET k == CHOOSE k \in keys : TRUE
         IN (n * counts[k] - total) * (n * counts[k] - total)
            + sum_sq_dev(counts, keys \ {k}, n, total)

\* calculate_shard_distribution_variance with the divisor len(counts) - 1 of
\* the sample variance.
calculate_shard_distribution_variance_sample(shards) ==
    LET counts == node_shard_counts(shards)
        n      == Cardinality(DOMAIN counts)
        total  == sum(counts, DOMAIN counts)
    IN IF n <= 1 THEN [num |-> 0, den |-> 1]
       ELSE [num |-> sum_sq_dev(counts, DOMAIN counts, n, total),
             den |-> n * n * (n - 1)]

\* calculate_shard_distribution_variance, as an exact fraction num / den:
\* 0 when no node owns a shard; otherwise mean = total / n, each
\* (x - mean) ** 2 is (n * x - total)^2 / n^2, and their sum is divided by n.
calculate_shard_distribution_variance(shards) ==
    LET counts == node_shard_counts(shards)
        n      == Cardinality(DOMAIN counts)
        total  == sum(counts, DOMAIN counts)
    IN IF n = 0 THEN [num |-> 0, den |-> 1]
       ELSE [num |-> sum_sq_dev(counts, DOMAIN counts, n, total), den |-> n * n * n]

\* A call of calculate_shard_distribution_variance.
shard_variance(shards) ==
    /\ calc.fn = "none"
    /\ calc' = [fn |-> "variance", shards |-> shards,
                variance |-> calculate_shard_distribution_variance(shards)]
    /\ UNCHANGED <<harness_vars, gate, pool, scn>>

\* Values of 'status' in the entries of the node list: None for an entry
\* without one.
Statuses == {"healthy", "unhealthy", None}

\* Longest node list of the quorum check.
MaxReported == 4

StatusLists == UNION {[1..k -> Statuses] : k \in 0..MaxReported}

\* sum(1 for n in nodes if n.get('status') == status)
RECURSIVE count_status(_, _)
count_status(nodes, status) ==
    IF nodes = <<>> THEN 0
    ELSE (IF nodes[Len(nodes)] = status THEN 1 ELSE 0)
         + count_status(SubSeq(nodes, 1, Len(nodes) - 1), status)

\* a / b of two ints: a float, here the exact fraction.
true_div(a, b) == [num |-> a, den |-> b]

\* x > q and x >= q for an int x and a fraction q with q.den > 0.
gt(x, q) == x * q.den > q.num
ge(x, q) == x * q.den >= q.num

\* The test of step_verify_quorum_maintenance with >= in place of >.
quorum_maintained_at_half(nodes) ==
    ge(count_status(nodes, "healthy"), true_div(Len(nodes), 2))

\* healthy_count > total_count / 2
quorum_maintained(nodes) ==
    gt(count_status(nodes, "healthy"), true_div(Len(nodes), 2))

\* step_verify_quorum_maintenance on the node list the coordinator reports:
\* when the quorum holds, /health is read and must answer 200.
step_verify_quorum_maintenance(nodes, health) ==
    /\ calc.fn = "none"
    /\ calc' = [fn |-> "quorum", nodes |-> nodes,
                healthy_count |-> count_status(nodes, "healthy"),
                total_count |-> Len(nodes),
                quorum |-> quorum_maintained(nodes),
                health_read |-> quorum_maintained(nodes),
                raised |-> quorum_maintained(nodes) /\ health # 200]
    /\ UNCHANGED <<harness_vars, gate, pool, scn>>

\* Answers of the coordinator to a read: a status, and a body that is JSON
\* or not, holds the key of the fragment or not, and lists items under it.
StatusCodes == {200, 404}
Bodies == {[is_json |-> TRUE, has_key |-> TRUE, items |-> <<"a">>],
           [is_json |-> TRUE, has_key |-> FALSE, items |-> <<>>],
           [is_json |-> FALSE, has_key |-> FALSE, items |-> <<>>]}
Responses == [status_code : StatusCodes, body : Bodies]

\* response.json(): raises when the body is not JSON.
json_raises(response) == ~response.body.is_json

\* data.get(key, [])
data_get(response) == IF response.body.has_key THEN response.body.items ELSE <<>>

\* One read of step_query_cluster_status into cluster_info (info): the
\* response is stored, and for status 200 the body is parsed and the fragment
\* stored under key. An error of an earlier read has ended the step.
fetch(info, key, response) ==
    IF info.raised # None THEN info
    ELSE LET stored == [info EXCEPT !.keys = @ \cup {key \o "_response"}]
         IN IF response.status_code # 200 THEN stored
            ELSE IF json_raises(response)
                 THEN [stored EXCEPT !.raised = "JSONDecodeError"]
                 ELSE [stored EXCEPT !.keys = @ \cup {key},
                                     ![key] = data_get(response)]

\* step_query_cluster_status with the answers to /nodes, /shards and /health
\* (the answer to /health is stored and not parsed; the read of /cluster/info
\* is guarded and its result is no fragment), then step_verify_registered_nodes
\* (verify_raised: its first assertion fails when cluster_info has no 'nodes').
step_query_cluster_status(nodes_response, shards_response, health_response) ==
    /\ calc.fn = "none"
    /\ LET empty  == [keys |-> {}, nodes |-> <<>>, shards |-> <<>>, raised |-> None]
           nodes  == fetch(empty, "nodes", nodes_response)
           shards == fetch(nodes, "shards", shards_response)
           health == IF shards.raised # None THEN shards
                     ELSE [shards EXCEPT !.keys = @ \cup {"health_response"}]
       IN calc' = [fn |-> "cluster_status",
                   nodes_response |-> nodes_response,
                   shards_response |-> shards_response,
                   health_response |-> health_response,
                   cluster_info |-> health,
                   verify_raised |-> health.raised = None /\ "nodes" \notin health.keys]
    /\ UNCHANGED <<harness_vars, gate, pool, scn>>

\* What requests.post(node_url + "/shutdown") can do: raise (no connection,
\* timeout), or return the answer of the node with its status.
ShutdownAnswers == {[raised |-> TRUE, status_code |-> 0],
                    [raised |-> FALSE, status_code |-> 200],
                    [raised |-> FALSE, status_code |-> 404]}

\* step_node_graceful_shutdown: context.shutdown_initiated after the step,
\* "unset" when the step leaves the attribute absent.
shutdown_initiated(in_nodes, answer) ==
    IF ~in_nodes THEN "unset"
    ELSE IF answer.raised THEN "False" ELSE "True"

\* step_verify_shutdown_notification
step_verify_shutdown_notification(initiated) ==
    CASE initiated = "unset" -> "AttributeError"
      [] initiated = "False" -> "skipped"
      [] OTHER -> "passed"

\* step_verify_shard_reassignment; moved: fewer shards are on the node than
\* context.node_shard_count.
step_verify_shard_reassignment(initiated, moved) ==
    CASE initiated = "unset" -> "AttributeError"
      [] initiated = "False" -> "returned"
      [] OTHER -> IF moved THEN "passed" ELSE "AssertionError"

\* step_node_graceful_shutdown for a node that is in context.nodes or not,
\* followed by the two checks that depend on it.
step_node_graceful_shutdown(in_nodes, answer, moved) ==
    /\ calc.fn = "none"
    /\ LET initiated == shutdown_initiated(in_nodes, answer)
       IN calc' = [fn |-> "shutdown", in_nodes |-> in_nodes, answer |-> answer,
                   moved |-> moved,
                   shutdown_initiated |-> initiated,
                   raised |-> FALSE,
                   notification |-> step_verify_shutdown_notification(initiated),
                   reassignment |-> step_verify_shard_reassignment(initiated, moved)]
    /\ UNCHANGED <<harness_vars, gate, pool, scn>>

NextCalc ==
    \/ \E in_nodes, moved \in BOOLEAN, answer \in ShutdownAnswers :
          step_node_graceful_shutdown(in_nodes, answer, moved)
    \/ \E nodes_response, shards_response \in Responses, health_response \in StatusCodes :
          step_query_cluster_status(nodes_response, shards_response, health_response)
    \/ \E node_name \in {"n1", "n3"}, port \in RegPorts, nodes \in NodeLists :
          check_registration(node_name, port, nodes)
    \/ \E shards \in ShardLists : shard_variance(shards)
    \/ \E nodes \in StatusLists, health \in {200, 503} :
          step_verify_quorum_maintenance(nodes, health)

SpecCalc == Init /\ [][NextCalc]_vars

\* isRegistered of the specification: some entry has the id of the node, or
\* an address that ends with the expected port.
IsRegistered(node_name, port, nodes) ==
    \E e \in Range(nodes) : e.id = node_name \/ endswith(e.addr, Str(port))

\* C19: each registration check of the harness reports a node as registered
\* exactly when some entry has its id or an address that ends with its port,
\* so all checks agree.
C19_RegistrationChecksAgree ==
    calc.fn = "registration" =>
        LET r == IsRegistered(calc.node_name, calc.port, calc.nodes)
        IN /\ calc.wait = r
           /\ calc.auto = r
           /\ calc.running = r

\* Number of shards of the list that node owns.
OwnedBy(shards, node) == Cardinality({i \in DOMAIN shards : shards[i] = node})

\* The nodes that own a shard of the list.
Owners(shards) == {shards[i] : i \in DOMAIN shards} \ {None}

\* The sum over the nodes of the e-th power (e = 1 or 2) of their counts.
RECURSIVE PowerSum(_, _, _)
PowerSum(shards, nodes, e) ==
    IF nodes = {} THEN 0
    ELSE LET k == CHOOSE k \in nodes : TRUE
             x == OwnedBy(shards, k)
         IN (IF e = 1 THEN x ELSE x * x) + PowerSum(shards, nodes \ {k}, e)

\* C20: the result is the population variance of the shard counts per node:
\* with n nodes owning shards, counts x, S their sum and Q the sum of their
\* squares, it is Q / n - (S / n)^2; it is 0 when no node owns a shard, 0 for
\* counts (2, 2) and 1 for counts (3, 1).
C20_PopulationVariance ==
    calc.fn = "variance" =>
        LET n == Cardinality(Owners(calc.shards))
            S == PowerSum(calc.shards, Owners(calc.shards), 1)
            Q == PowerSum(calc.shards, Owners(calc.shards), 2)
            v == calc.variance
        IN /\ v.den > 0
           /\ n = 0 => v.num = 0
           /\ n > 0 => v.num * n * n = v.den * (n * Q - S * S)
           /\ {OwnedBy(calc.shards, k) : k \in Owners(calc.shards)} = {2} => v.num = 0
           /\ (n = 2 /\ {OwnedBy(calc.shards, k) : k \in Owners(calc.shards)} = {1, 3})
                 => v.num = v.den

\* The variance of four shards owned 3 to 1 among two nodes, one entry of
\* the list following the three of the other node.
C20_Witness ==
    /\ calc.fn = "variance"
    /\ OwnedBy(calc.shards, "n1") = 3
    /\ OwnedBy(calc.shards, "n2") = 1
    /\ calc.variance.num = calc.variance.den

\* The entries of the list that report healthy status.
Healthy(nodes) == {i \in DOMAIN nodes : nodes[i] = "healthy"}

\* C21: the quorum check holds exactly when the healthy entries are strictly
\* more than half of the reported entries; it fails for an empty list and
\* when exactly half are healthy.
C21_QuorumIsStrictMajority ==
    calc.fn = "quorum" =>
        /\ calc.quorum <=> 2 * Cardinality(Healthy(calc.nodes)) > Len(calc.nodes)
        /\ calc.nodes = <<>> => ~calc.quorum
        /\ 2 * Cardinality(Healthy(calc.nodes)) = Len(calc.nodes) => ~calc.quorum

\* Two of four reported nodes are healthy and the quorum does not hold.
C21_Witness ==
    /\ calc.fn = "quorum"
    /\ Len(calc.nodes) = 4
    /\ Cardinality(Healthy(calc.nodes)) = 2
    /\ ~calc.quorum

\* A read that got a non-success status or a body that is not JSON.
Failed(response) == response.status_code # 200 \/ ~response.body.is_json

\* C22: a read of the cluster state that gets a non-success status or a
\* malformed body yields an empty fragment and raises nothing, in the fetch
\* or in the check that uses the fragment.
C22_FailedReadYieldsEmpty ==
    calc.fn = "cluster_status" =>
        /\ (Failed(calc.nodes_response) \/ Failed(calc.shards_response))
              => calc.cluster_info.raised = None
        /\ Failed(calc.nodes_response) =>
              /\ "nodes" \in calc.cluster_info.keys
              /\ calc.cluster_info.nodes = <<>>
              /\ ~calc.verify_raised
        /\ Failed(calc.shards_response) =>
              /\ "shards" \in calc.cluster_info.keys
              /\ calc.cluster_info.shards = <<>>

\* The waits that must have passed before the test body: the readiness wait
\* of the coordinator and of each initial node, and the registration wait of
\* each initial node.
RequiredWaits ==
    {<<"service", n>> : n \in {"coordinator", "n1", "n2"}}
    \cup {<<"registration", n>> : n \in {"n1", "n2"}}

\* The steps of the test body.
BodyOps == {"start_node", "suspend", "resume", "unavailable"}

\* C29: while the cluster is up for the test body, and after every step of
\* the test body, every required wait of cluster start has passed; when a
\* wait of cluster start has timed out, setup has failed, the cluster is down
\* and no step of the test body has run.
C29_BodyAfterAllWaits ==
    /\ (phase = "up" \/ last.op \in BodyOps \/ nstart > 0)
          => RequiredWaits \subseteq Range(waited)
    /\ last.op = "setup_failed" =>
          /\ phase = "down"
          /\ nstart = 0

\* A step of the test body has run in a cluster started without goreman.
C29_Witness ==
    /\ last.op \in BodyOps
    /\ Len(waited) = 10
    /\ RequiredWaits \subseteq Range(waited)

\* Cluster start has failed in the registration wait of the second node,
\* after the other waits of the direct start had passed.
C29_FailedWitness ==
    /\ last.op = "setup_failed"
    /\ Len(waited) = 4
    /\ phase = "down"

\* C30: the readiness wait for a service begins no poll once startup_timeout
\* has passed since its call.
C30_ServiceWaitHonoursStartupTimeout ==
    (gate.kind = "wait_for_service" /\ gate.pc = "check") =>
        gate.now - gate.start < startup_timeout

\* C28: when the request to the shutdown endpoint fails or is answered with
\* status 404, the step raises nothing and records the shutdown as not
\* initiated, and the checks that depend on it are skipped.
C28_UnsupportedShutdownIsSkipped ==
    (/\ calc.fn = "shutdown"
     /\ calc.in_nodes
     /\ calc.answer.raised \/ calc.answer.status_code = 404) =>
        /\ ~calc.raised
        /\ calc.shutdown_initiated = "False"
        /\ calc.notification = "skipped"
        /\ calc.reassignment = "returned"

----------------------------------------------------------------------------
\* The scenario hooks (environment.py) and the step that tracks a key.

\* Scenarios run, and keys that one scenario tracks.
MaxScenarios == 3
MaxKeys == 2

\* Keys that the steps store under.
Keys == {"k1", "k2"}

\* The URL step_put_value stores key through, below the coordinator's URL.
put_url(key) == <<"data", key>>

\* The URL after_scenario requests the delete of key with.
delete_url(key) == <<"store", key>>

\* The URLs of the deletes of after_scenario for the keys of test_keys.
delete_urls(test_keys) == [i \in DOMAIN test_keys |-> delete_url(test_keys[i])]

\* before_scenario: responses, errors and timing are assigned anew.
before_scenario ==
    /\ scn.pc = "idle"
    /\ scn.n < MaxScenarios
    /\ scn' = [scn EXCEPT !.pc = "running", !.n = @ + 1, !.fresh = TRUE,
                          !.failed = FALSE, !.put_urls = <<>>,
                          !.has_responses = TRUE, !.responses = <<>>,
                          !.has_errors = TRUE, !.errors = <<>>]
    /\ UNCHANGED <<harness_vars, gate, calc, pool>>

\* step_put_value: the key is tracked (test_keys is created when absent),
\* then the request is made; fails: the request raises and the step fails.
step_put_value(key, fails) ==
    /\ scn.pc = "running"
    /\ ~scn.failed
    /\ Len(scn.test_keys) < MaxKeys
    /\ scn' = [scn EXCEPT !.fresh = FALSE,
                          !.has_test_keys = TRUE,
                          !.test_keys = Append(@, key),
                          !.put_urls = Append(@, put_url(key)),
                          !.failed = fails]
    /\ UNCHANGED <<harness_vars, gate, calc, pool>>

\* A step that tracks nothing fails (an assertion, an exception): the steps
\* after it are skipped.
step_fails ==
    /\ scn.pc = "running"
    /\ ~scn.failed
    /\ scn' = [scn EXCEPT !.fresh = FALSE, !.failed = TRUE]
    /\ UNCHANGED <<harness_vars, gate, calc, pool>>

\* after_scenario without the assignment that empties test_keys.
after_scenario_keeps_keys(delete_raises) ==
    /\ scn.pc = "running"
    /\ scn' = [scn EXCEPT !.pc = "idle", !.fresh = FALSE,
                          !.prev_failed = scn.failed,
                          !.deleted = IF scn.has_test_keys THEN scn.test_keys ELSE <<>>,
                          !.delete_urls = IF scn.has_test_keys
                                          THEN delete_urls(scn.test_keys) ELSE <<>>,
                          !.delete_raised = delete_raises /\ scn.has_test_keys
                                              /\ scn.test_keys # <<>>]
    /\ UNCHANGED <<harness_vars, gate, calc, pool>>

\* after_scenario, which behave calls whether the scenario passed or failed:
\* when test_keys exists, a delete is requested for each key (delete_raises:
\* the requests raise, which is swallowed) and test_keys is assigned [].
after_scenario(delete_raises) ==
    /\ scn.pc = "running"
    /\ scn' = [scn EXCEPT !.pc = "idle", !.fresh = FALSE,
                          !.prev_failed = scn.failed,
                          !.deleted = IF scn.has_test_keys THEN scn.test_keys ELSE <<>>,
                          !.delete_urls = IF scn.has_test_keys
                                          THEN delete_urls(scn.test_keys) ELSE <<>>,
                          !.delete_raised = delete_raises /\ scn.has_test_keys
                                              /\ scn.test_keys # <<>>,
                          !.test_keys = <<>>]
    /\ UNCHANGED <<harness_vars, gate, calc, pool>>

NextScenario ==
    \/ before_scenario
    \/ \E key \in Keys, fails \in BOOLEAN : step_put_value(key, fails)
    \/ step_fails
    \/ \E delete_raises \in BOOLEAN : after_scenario(delete_raises)

SpecScenario == Init /\ [][NextScenario]_vars

----------------------------------------------------------------------------
\* Concurrent workload: step_concurrent_puts, step_concurrent_gets and
\* step_verify_concurrent_gets (distributed_storage_steps.py), with the
\* ThreadPoolExecutor they use.

\* Largest number of clients.
MaxClients == 2

\* key and value of put_value for a client: the client id and a random
\* suffix, so keys and values of different clients differ.
KeyOf(client_id) == <<"concurrent_key", client_id>>
ValueOf(client_id) == <<"value_from_client", client_id>>

\* None as the value of a result.
NoValue == <<>>

\* What make_request can do in a worker: raise (connection error, timeout),
\* or return a response with a status and a text.
PutResponses == {[exception |-> e, status_code |-> c, text |-> NoValue] :
                    e \in BOOLEAN, c \in {204, 500}} \ 
                {[exception |-> TRUE, status_code |-> 500, text |-> NoValue]}
GetResponses(n) ==
    {[exception |-> TRUE, status_code |-> 204, text |-> NoValue],
     [exception |-> FALSE, status_code |-> 404, text |-> NoValue]}
    \cup {[exception |-> FALSE, status_code |-> 200, text |-> ValueOf(i)] : i \in 0..(n - 1)}

\* The dict that put_value returns.
put_value(client_id, response) ==
    [client_id |-> client_id, key |-> KeyOf(client_id), value |-> ValueOf(client_id),
     status |-> response.status_code]

\* The dict that get_value returns.
get_value(key, response) ==
    [key |-> key,
     value |-> IF response.status_code = 200 THEN response.text ELSE NoValue,
     status |-> response.status_code]

\* A future: "pending" in the work queue, "running" in a worker, "finished"
\* with a result or an exception; yielded: as_completed has yielded it.
NewFuture == [state |-> "pending", exception |-> FALSE, result |-> <<>>,
              yielded |-> FALSE]

Running(p) == {i \in DOMAIN p.futures : p.futures[i].state = "running"}
Pending(p) == {i \in DOMAIN p.futures : p.futures[i].state = "pending"}

\* The comprehension of executor.submit ends after its first call.
submitted_first(p) == Len(p.futures) >= 1

\* The comprehension of executor.submit has submitted every operation.
submitted_all(p) == Len(p.futures) = Len(p.ops)

\* The step up to the with statement: ThreadPoolExecutor(max_workers).
begin(p, kind, max_workers, ops) ==
    [p EXCEPT !.pc = IF ops = <<>> THEN "join" ELSE "submit",
              !.kind = kind, !.max_workers = max_workers, !.ops = ops,
              !.futures = <<>>, !.threads = 0, !.results = <<>>,
              !.raised = None, !.awaited_at = -1]

\* step_concurrent_puts, first lines.
step_concurrent_puts(num_clients) ==
    /\ pool.pc = "idle"
    /\ pool' = begin([pool EXCEPT !.concurrent_keys = <<>>,
                                  !.concurrent_values = <<>>],
                     "put", num_clients, [i \in 1..num_clients |-> i - 1])
    /\ UNCHANGED <<harness_vars, gate, calc, scn>>

\* step_concurrent_gets, first lines: one operation per key of
\* context.concurrent_keys, in a pool of num_clients workers.
step_concurrent_gets(num_clients) ==
    /\ pool.pc = "done"
    /\ pool.kind = "put"
    /\ pool.raised = None
    /\ pool' = begin(pool, "get", num_clients, pool.concurrent_keys)
    /\ UNCHANGED <<harness_vars, gate, calc, scn>>

\* executor.submit: the work item is queued, and a worker thread is started
\* while there are fewer than max_workers.
submit ==
    /\ pool.pc = "submit"
    /\ LET p == [pool EXCEPT !.futures = Append(@, NewFuture),
                             !.threads = IF @ < pool.max_workers THEN @ + 1 ELSE @]
       IN pool' = [p EXCEPT !.pc = IF submitted_all(p) THEN "collect" ELSE "submit"]
    /\ UNCHANGED <<harness_vars, gate, calc, scn>>

\* A worker that is idle takes the oldest work item of the queue.
worker_starts ==
    /\ Pending(pool) # {}
    /\ Cardinality(Running(pool)) < pool.threads
    /\ LET i == CHOOSE i \in Pending(pool) : \A j \in Pending(pool) : i <= j
       IN pool' = [pool EXCEPT !.futures[i].state = "running"]
    /\ UNCHANGED <<harness_vars, gate, calc, scn>>

\* The call of put_value or get_value in a worker ends: the future gets its
\* result, or the exception of make_request.
worker_finishes(i, response) ==
    /\ i \in Running(pool)
    /\ response \in IF pool.kind = "put" THEN PutResponses
                    ELSE GetResponses(Len(pool.ops))
    /\ pool' = [pool EXCEPT
                  !.futures[i] = [state |-> "finished",
                                  exception |-> response.exception,
                                  result |-> IF response.exception THEN <<>>
                                             ELSE IF pool.kind = "put"
                                             THEN put_value(pool.ops[i], response)
                                             ELSE get_value(pool.ops[i], response),
                                  yielded |-> FALSE]]
    /\ UNCHANGED <<harness_vars, gate, calc, scn>>

\* as_completed yields future i and f.result() is called, with the future
\* left as not yielded.
collect_future_again(p, i) ==
    LET q == [p EXCEPT !.awaited_at = IF @ = -1 THEN Len(p.futures) ELSE @]
    IN IF q.futures[i].exception
       THEN [q EXCEPT !.pc = "join", !.raised = "ConnectionError"]
       ELSE [q EXCEPT !.results = Append(@, q.futures[i].result)]

\* as_completed yields future i and f.result() is called: the result is
\* appended to the list, or the exception of the operation is raised and
\* leaves the with block.
collect_future(p, i) ==
    LET q == [p EXCEPT !.futures[i].yielded = TRUE,
                       !.awaited_at = IF @ = -1 THEN Len(p.futures) ELSE @]
    IN IF q.futures[i].exception
       THEN [q EXCEPT !.pc = "join", !.raised = "ConnectionError"]
       ELSE [q EXCEPT !.results = Append(@, q.futures[i].result),
                      !.pc = IF \A j \in DOMAIN q.futures : q.futures[j].yielded
                             THEN "join" ELSE "collect"]

\* as_completed yields a future that has finished and has not been yielded:
\* those finished at the call in any order, the others as they finish.
collect(i) ==
    /\ pool.pc = "collect"
    /\ i \in DOMAIN pool.futures
    /\ pool.futures[i].state = "finished"
    /\ ~pool.futures[i].yielded
    /\ pool' = collect_future(pool, i)
    /\ UNCHANGED <<harness_vars, gate, calc, scn>>

\* The loop of step_concurrent_puts over the results: keys, values and
\* tracked keys are stored, in the order of the results.
RECURSIVE store_results(_, _)
store_results(p, results) ==
    IF results = <<>> THEN p
    ELSE LET result == Head(results)
             keys   == DOMAIN p.concurrent_values \cup {result.key}
         IN store_results(
              [p EXCEPT !.concurrent_keys = Append(@, result.key),
                        !.concurrent_values =
                            [k \in keys |-> IF k = result.key THEN result.value
                                            ELSE p.concurrent_values[k]],
                        !.test_keys = Append(@, result.key)],
              Tail(results))

\* Leaving the with block waits for every submitted call (shutdown with
\* wait=True); then, unless an exception is on its way out, the rest of the
\* step runs.
join ==
    /\ pool.pc = "join"
    /\ \A i \in DOMAIN pool.futures : pool.futures[i].state = "finished"
    /\ pool' =
         IF pool.raised # None THEN [pool EXCEPT !.pc = "done"]
         ELSE IF pool.kind = "put"
         THEN [store_results(pool, pool.results) EXCEPT
                  !.pc = "done", !.concurrent_results = pool.results]
         ELSE [pool EXCEPT !.pc = "done", !.concurrent_get_results = pool.results]
    /\ UNCHANGED <<harness_vars, gate, calc, scn>>

\* The value that the check expects for the result at position idx, taken
\* by position: the value of the idx-th key of context.concurrent_keys.
expected_value_by_position(p, idx) ==
    p.concurrent_values[p.concurrent_keys[idx]]

\* expected_value = context.concurrent_values[result['key']]
expected_value(p, idx) ==
    p.concurrent_values[p.concurrent_get_results[idx].key]

\* step_verify_concurrent_gets: every result has status 200 and the expected
\* value, or an assertion fails.
step_verify_concurrent_gets ==
    /\ pool.pc = "done"
    /\ pool.kind = "get"
    /\ pool.raised = None
    /\ pool' = [pool EXCEPT
                  !.pc = "verified",
                  !.verify =
                     IF \A idx \in DOMAIN pool.concurrent_get_results :
                           /\ pool.concurrent_get_results[idx].status = 200
                           /\ pool.concurrent_get_results[idx].value
                                 = expected_value(pool, idx)
                     THEN "passed" ELSE "AssertionError"]
    /\ UNCHANGED <<harness_vars, gate, calc, scn>>

NextPool ==
    \/ \E num_clients \in 1..MaxClients : step_concurrent_puts(num_clients)
    \/ \E num_clients \in 1..MaxClients : step_concurrent_gets(num_clients)
    \/ submit
    \/ worker_starts
    \/ \E i \in 1..MaxClients, response \in PutResponses \cup GetResponses(MaxClients) :
          worker_finishes(i, response)
    \/ \E i \in 1..MaxClients : collect(i)
    \/ join
    \/ step_verify_concurrent_gets

SpecPool == Init /\ [][NextPool]_vars

\* The positions of the results that belong to the operation on key.
ResultsOf(results, key) == {k \in DOMAIN results : results[k].key = key}

\* The key of the i-th operation of the run.
OpKey(p, i) == IF p.kind = "put" THEN KeyOf(p.ops[i]) ELSE p.ops[i]

\* C23: when the step first awaits a result, every operation of the run has
\* been submitted to the pool; and never more than max_workers operations
\* are executing.
C23_SubmittedBeforeAwaited ==
    /\ pool.awaited_at # -1 => pool.awaited_at = Len(pool.ops)
    /\ Cardinality(Running(pool)) <= pool.max_workers

\* Two fetches run in a pool of one worker: the result of the first has been
\* collected while the second is executing.
C23_Witness ==
    /\ pool.kind = "get"
    /\ pool.max_workers = 1
    /\ Len(pool.ops) = 2
    /\ pool.awaited_at = 2
    /\ Len(pool.results) = 1
    /\ Running(pool) # {}

\* C24: the check of the fetches passes exactly when every fetch has status
\* 200 and the value that the store on the same key wrote, whatever the
\* order in which stores and fetches completed.
C24_VerifiedByKey ==
    pool.pc = "verified" =>
        (pool.verify = "passed" <=>
            \A r \in Range(pool.concurrent_get_results) :
                /\ r.status = 200
                /\ \E w \in Range(pool.concurrent_results) :
                      w.key = r.key /\ w.value = r.value)

\* The check passes on two fetches whose results were collected in the
\* opposite order of the keys.
C24_Witness ==
    /\ pool.pc = "verified"
    /\ pool.verify = "passed"
    /\ Len(pool.concurrent_get_results) = 2
    /\ pool.concurrent_get_results[1].key = pool.concurrent_keys[2]

\* C25: a run ends without raising, with a result for every operation,
\* whatever its operations met: a connection error or a status that is not
\* a success is a result like any other.
C25_FailureIsOrdinaryResult ==
    pool.pc = "done" =>
        /\ pool.raised = None
        /\ \A i \in DOMAIN pool.ops : ResultsOf(pool.results, OpKey(pool, i)) # {}

\* C26: no operation has two results in the list, and when the list is
\* complete every operation has exactly one, whatever the order in which the
\* workers finished.
C26_OneResultPerOperation ==
    /\ \A i \in DOMAIN pool.ops :
          Cardinality(ResultsOf(pool.results, OpKey(pool, i))) <= 1
    /\ (pool.pc = "done" /\ pool.raised = None) =>
          /\ Len(pool.results) = Len(pool.ops)
          /\ \A i \in DOMAIN pool.ops :
                Cardinality(ResultsOf(pool.results, OpKey(pool, i))) = 1

\* Two stores have ended and their results were collected with the second
\* client's first.
C26_Witness ==
    /\ pool.pc = "done"
    /\ pool.kind = "put"
    /\ pool.raised = None
    /\ Len(pool.results) = 2
    /\ pool.results[1].client_id = 1

----------------------------------------------------------------------------
\* Signals and collected exits

\* C31: no operation of the harness (suspend, resume, "node becomes
\* unavailable", teardown, however often repeated) sends a signal to a pid
\* whose exit a poll() or wait() of the harness has returned before.  A step
\* that leaves nexit alone is an operation of the harness, and last'.sigs are
\* the signals it sent.
C31_NoSignalAfterCollectedExit ==
    [][nexit' = nexit =>
          \A i \in DOMAIN last'.sigs : last'.sigs[i].pid \notin reaped]_vars

\* The handle of record process_info is that of a process the harness
\* launched as binary exe with NODE_ID node_id.
HandleOf(process_info, exe, node_id) ==
    /\ process_info.process # 0
    /\ process_info.process \in DOMAIN procs
    /\ process_info.pid = process_info.process
    /\ procs[process_info.process].exe = exe
    /\ procs[process_info.process].node_id = node_id
    /\ procs[process_info.process].ppid = 0

\* C32: once cluster start has completed without goreman, the records of the
\* coordinator and of n1 and n2 carry the handle and the pid of a process
\* launched for them.
C32_DirectStartKeepsHandles ==
    (phase = "up" /\ tc_goreman = 0) =>
        /\ HandleOf(tc_coordinator, "coordinator", None)
        /\ \A n \in {"n1", "n2"} : n \in DOMAIN tc_nodes /\ HandleOf(tc_nodes[n], "node", n)

\* C33: when "node becomes unavailable" has returned for a node the harness
\* launched, at cluster start or by start_node, no process launched as that
\* node is still alive.
C33_UnavailableNodeIsDown ==
    (last.op = "unavailable" /\ ~last.raised) =>
        \A pid \in Launched :
            (procs[pid].exe = "node" /\ procs[pid].node_id = last.node) => ~Alive(procs, pid)

\* The processes the harness started itself, with subprocess.Popen.
Spawned == {pid \in DOMAIN procs : procs[pid].ppid = 0}

C35_SuspendKeepsToItsNode ==
    last.op = "suspend" =>
        \A i \in DOMAIN last.sigs :
            LET p == procs[last.sigs[i].pid]
            IN /\ p.exe = "node"
               /\ p.node_id # last.node =>
                     /\ ~p.own
                     /\ last.node \in DOMAIN tc_nodes
                     /\ p.cmd_port = tc_nodes[last.node].port

\* A suspend of n2 that stopped a process of n2 and tried the process whose
\* environment is denied, while the coordinator and n1 keep running.
C35_Witness ==
    /\ last.op = "suspend"
    /\ last.node = "n2"
    /\ \E i, j \in DOMAIN last.sigs :
         /\ procs[last.sigs[i].pid].own /\ last.sigs[i].ok
         /\ ~procs[last.sigs[j].pid].own
    /\ \E pid \in DOMAIN procs :
         procs[pid].own /\ procs[pid].node_id = "n1" /\ procs[pid].st = "running"
    /\ \E pid \in DOMAIN procs :
         procs[pid].exe = "coordinator" /\ procs[pid].st = "running"

\* C36: context.suspended_pids holds no pid twice.
C36_SuspendedPidsDistinct ==
    \A i, j \in DOMAIN ctx_suspended_pids :
        ctx_suspended_pids[i] = ctx_suspended_pids[j] => i = j

\* C37: when a scenario has ended, every URL that step_put_value stored a
\* key through in that scenario is among the URLs the cleanup of
\* after_scenario has requested a delete for.
C37_CleanupDeletesWhereStored ==
    (scn.pc = "idle" /\ scn.n > 0) =>
        \A i \in DOMAIN scn.put_urls : scn.put_urls[i] \in Range(scn.delete_urls)

----------------------------------------------------------------------------
\* Termination of wait_for_condition

\* What holds of a call of wait_for_condition at every moment: no
\* evaluation begins at or past the deadline, none at all when the deadline
\* is zero; when every evaluation has returned a value, the call ends with
\* True right after an evaluation that found the condition true, or with
\* False at a test of the clock at or past the deadline.
WaitForConditionReturns ==
    gate.kind = "wait_for_condition" =>
        /\ gate.evals > 0 => gate.prev - gate.start < gate.timeout
        /\ gate.timeout = 0 => gate.evals = 0
        /\ (gate.pc = "done" /\ ~gate.erred) =>
              \/ /\ gate.result = "True"
                 /\ gate.outcome = "true"
                 /\ ~gate.raised
              \/ /\ gate.result = "False"
                 /\ gate.outcome # "true"
                 /\ ~gate.raised
                 /\ gate.now - gate.start >= gate.timeout

\* C38: a call of wait_for_condition whose evaluations all end does end; it
\* returns True at the first evaluation that is true and False at the first
\* test of the clock at or past the deadline, evaluates nothing after it has
\* ended, and evaluates nothing at all when the deadline is zero.
C38_WaitForConditionTerminates ==
    /\ [](WaitForConditionReturns)
    /\ [][gate.pc = "done" => gate' = gate]_vars
    /\ (gate.kind = "wait_for_condition") ~> (gate.pc = "done")

\* A call has ended with True after a second evaluation, the first having
\* been false.
C38_Witness ==
    /\ gate.kind = "wait_for_condition"
    /\ gate.pc = "done"
    /\ gate.result = "True"
    /\ gate.evals = 2

\* A call has ended with False after evaluations that were all false.
C38_TimeoutWitness ==
    /\ gate.kind = "wait_for_condition"
    /\ gate.pc = "done"
    /\ gate.result = "False"
    /\ gate.evals >= 2

\* A call with a deadline of zero has ended with False and no evaluation.
C38_ZeroWitness ==
    /\ gate.kind = "wait_for_condition"
    /\ gate.pc = "done"
    /\ gate.timeout = 0
    /\ gate.result = "False"
    /\ gate.evals = 0

====
